---- MODULE Spec2Model ----
(***************************************************************************)
(* Session / transaction lifecycle of nodestream-plugin-neo4j:             *)
(* CircuitBreaker, EnhancedSessionManager, EnhancedTransactionManager      *)
(* (enhanced_components.py) and Neo4jQueryExecutor (query_executor.py);    *)
(* Neo4jDatabaseConnection (neo4j_database.py); QueryBatch (query.py) and  *)
(* Neo4jResult (result.py).                                                *)
(*                                                                         *)
(* Tasks are asyncio coroutines: the code between two awaits runs          *)
(* atomically, so there is one action per resumption of a pending await.   *)
(* The driver (session(), begin_transaction(), run(), consume(), commit(), *)
(* close()) is the remote side: each await on it either succeeds or raises *)
(* one of RemoteErrors.                                                    *)
(***************************************************************************)
EXTENDS Integers, Sequences, FiniteSets, TLC

VARIABLES
    now,            \* datetime.now(), in whole seconds
    cb,             \* a CircuitBreaker driven directly through its three methods
    cb_hist,        \* per key: times of the record_failure calls since the last record_success
    cb_last,        \* the most recent call on cb: [op, key, result, at, before (the key's state at the call)]
    cb_calls,       \* number of calls made on cb
    sm_config,      \* EnhancedSessionManager: _max_sessions, _session_timeout
    sessions,       \* EnhancedSessionManager._sessions: the ids tracked, in insertion order (ascending)
    sstate,         \* the SessionState objects alive, by id (tracked or not)
    retired,        \* status and errors each SessionState object had when the last reference to it went
    next_sid,       \* source of fresh session ids (uuid4)
    sm_cb,          \* EnhancedSessionManager._circuit_breaker
    retry_config,   \* EnhancedTransactionManager._retry_config
    collect_transaction_metrics,  \* monitor and monitoring_config and its collect_transaction_metrics
    tx_cb,          \* EnhancedTransactionManager._circuit_breaker
    transactions,   \* EnhancedTransactionManager._active_transactions
    next_txid,      \* source of fresh transaction ids (uuid4)
    task,           \* the coroutines calling into the executor and the managers
    reaper,         \* EnhancedSessionManager._cleanup_task: the coroutine cleanup_loop
    locks,          \* the threading.Lock objects of the managers: the task holding each, or None
    calls,          \* number of calls started so far
    call_budget,    \* number of calls the tasks make, all together
    remote_errors,  \* the exceptions the remote side raises from an awaited call
    db,             \* a Neo4jDatabaseConnection and the coroutine calling its execute
    lib_call        \* a call of a function that awaits nothing: [fn, args, pc, outcome, value,
                    \* error, decoded (the ApocBatchResponse read from the first row, if any)]

breakerVars == <<cb, cb_hist, cb_last, cb_calls>>
managerConfig == <<sm_config, collect_transaction_metrics, call_budget, remote_errors>>
\* what no step of the breaker, the managers or the executor writes
configVars == <<managerConfig, db, lib_call>>
managerVars == <<sessions, sstate, retired, next_sid, sm_cb, retry_config, tx_cb, transactions,
                 next_txid, task, reaper, locks, calls>>
vars == <<now, breakerVars, configVars, managerVars>>

----------------------------------------------------------------------------
(* Bounds of the model *)

MaxTime == 4              \* the clock ticks up to here
MaxBreakerCalls == 5      \* calls made on the directly driven breaker
MaxThreshold == 2         \* failure_threshold is drawn from 1..MaxThreshold
MaxResetTimeout == 3      \* reset_timeout is drawn from 1..MaxResetTimeout
MaxHalfOpenTimeout == 2   \* half_open_timeout is drawn from 0..MaxHalfOpenTimeout
MaxCalls == 2             \* calls made on the executor, all together
DirectCalls == 2           \* calls made by the caller that uses the managers directly
MaxQueries == 2           \* statements in one transaction of the caller that uses the managers directly
ExecutorMaxQueries == 1   \* statements in one execute_transaction call
MaxRetries == 1           \* retries_per_chunk of the executor
MaxSessions == 1          \* max_sessions is drawn from 1..MaxSessions
RetryDepth == 6           \* max_retries of the manager driven directly
MaxInitialDelay == 2      \* initial_delay of the manager driven directly is drawn from 1..MaxInitialDelay
GateCalls == 7            \* get_session calls made against the session manager's own breaker
GateStep == 16            \* seconds that pass at once between those calls
GateHorizon == 64         \* the clock of those calls runs up to here
SessionCalls == 4         \* calls made on the session manager next to its reaper
ReaperTimeout == 1        \* session_timeout of that session manager
ReaperHorizon == 2        \* its clock runs up to here
MaxBatch == 4             \* longest list given to execute_batch
MaxBatchSize == 3         \* largest batch_size given to it
BatchCalls == 1           \* execute_batch calls made
DbCalls == 3              \* execute calls made on the database connection
DbMaxAttempts == 3        \* its max_retry_attempts is drawn from 0..DbMaxAttempts
MaxParameterSets == 2     \* longest batched_parameter_sets of a QueryBatch
MetricsCalls == 4         \* calls made by the threads that update session metrics
MaxMetricValue == 2       \* their argument value is drawn from 1..MaxMetricValue
MetricsHorizon == 1       \* their clock runs up to here

(* Program constants *)

DefaultFailureThreshold == 5
DefaultResetTimeout == 60
DefaultHalfOpenTimeout == 30
ExecutorInitialDelay == 1
ExecutorMaxDelay == 30
ExecutorSessionTimeout == 300
DefaultChunkSize == 1000

Keys == {"session_creation", "transaction_a"}

----------------------------------------------------------------------------
(* Python dict helpers *)

EmptyDict == [x \in {} |-> 0]

DictSet(d, k, v) == [x \in (DOMAIN d) \cup {k} |-> IF x = k THEN v ELSE d[x]]

DictPop(d, k) == [x \in (DOMAIN d) \ {k} |-> d[x]]

DictGet(d, k, default) == IF k \in DOMAIN d THEN d[k] ELSE default

----------------------------------------------------------------------------
(* CircuitBreaker *)

CircuitBreaker(failure_threshold, reset_timeout, half_open_timeout) ==
    [failure_threshold |-> failure_threshold,
     reset_timeout     |-> reset_timeout,
     half_open_timeout |-> half_open_timeout,
     failures          |-> EmptyDict,
     state             |-> EmptyDict]

DefaultCircuitBreaker ==
    CircuitBreaker(DefaultFailureThreshold, DefaultResetTimeout, DefaultHalfOpenTimeout)

\* the comprehension that drops the failures older than reset_timeout
CleanOldFailures(b, fs, t) ==
    SelectSeq(fs, LAMBDA f : t - f < b.reset_timeout)

\* a variant that opens the key one failure late
ThresholdExceeded(b, fs) ==
    Len(fs) > b.failure_threshold

\* the test that opens the key
ThresholdReached(b, fs) ==
    Len(fs) >= b.failure_threshold

\* a variant that prunes the failure lists of all keys
record_failure_prunes_all_keys(b, operation_id, t) ==
    LET appended == Append(DictGet(b.failures, operation_id, <<>>), t)
        cleaned  == CleanOldFailures(b, appended, t)
    IN  [b EXCEPT !.failures = [x \in (DOMAIN b.failures) \cup {operation_id} |->
                                   IF x = operation_id
                                   THEN cleaned
                                   ELSE CleanOldFailures(b, b.failures[x], t)],
                  !.state    = IF ThresholdReached(b, cleaned)
                               THEN DictSet(b.state, operation_id, "open")
                               ELSE b.state]

record_failure(b, operation_id, t) ==
    LET appended == Append(DictGet(b.failures, operation_id, <<>>), t)
        cleaned  == CleanOldFailures(b, appended, t)
    IN  [b EXCEPT !.failures = DictSet(b.failures, operation_id, cleaned),
                  !.state    = IF ThresholdReached(b, cleaned)
                               THEN DictSet(b.state, operation_id, "open")
                               ELSE b.state]

\* a variant that closes the key and keeps its failure list
record_success_keeps_failures(b, operation_id) ==
    [b EXCEPT !.state = DictSet(b.state, operation_id, "closed")]

record_success(b, operation_id) ==
    [b EXCEPT !.failures = DictPop(b.failures, operation_id),
              !.state    = DictSet(b.state, operation_id, "closed")]

\* can_execute returns a bool and may move the key to half-open:
\* the result is [ok |-> the bool, b |-> the breaker afterwards]
can_execute(b, operation_id, t) ==
    LET state    == DictGet(b.state, operation_id, "closed")
        failures == DictGet(b.failures, operation_id, <<>>)
    IN  IF state = "closed"
        THEN [ok |-> TRUE, b |-> b]
        ELSE IF state = "open"
        THEN IF Len(failures) > 0 /\ (t - failures[Len(failures)]) > b.half_open_timeout
             THEN [ok |-> TRUE,
                   b  |-> [b EXCEPT !.state = DictSet(b.state, operation_id, "half-open")]]
             ELSE [ok |-> FALSE, b |-> b]
        ELSE [ok |-> (state = "half-open"), b |-> b]

----------------------------------------------------------------------------
(* Values *)

None == 0

Tasks == {1, 2}

\* CircuitBreaker._lock of either manager, EnhancedSessionManager._metrics_lock,
\* EnhancedTransactionManager._transaction_lock.
\* A with block that holds no await begins and ends inside one step of a coroutine.
LockNames ==
    {"session_manager._circuit_breaker._lock", "session_manager._metrics_lock",
     "transaction_manager._circuit_breaker._lock", "transaction_manager._transaction_lock"}

Min(S) == CHOOSE x \in S : \A y \in S : x <= y

MinOf(a, b) == IF a <= b THEN a ELSE b

\* s in text, on strings given as sequences of words
Contains(text, s) ==
    \E i \in 1..(Len(text) - Len(s) + 1) : SubSeq(text, i, i + Len(s) - 1) = s

\* RetryConfig.retry_on_strings as shipped: ["Neo.TransientError.Transaction.Terminated"]
DefaultRetryOnStrings == { <<"Neo.TransientError.Transaction.Terminated">> }

\* the retry_on_errors arguments the callers pass: None, or a list of their own
DeadlockStrings == { <<"DeadlockDetected">> }

RetryOnErrorsArgs == { {}, DeadlockStrings }

\* the callers that leave retry_on_errors at its default, None
NoRetryOnErrors == { {} }

\* exceptions: the class and str(e)
NoError == [type |-> "none", text |-> <<>>]

TransientFailure == [type |-> "TransientError", text |-> <<"transient", "failure">>]

DeadlockFailure == [type |-> "Neo4jError", text |-> <<"ForsetiClient", "DeadlockDetected">>]

SyntaxFailure == [type |-> "Neo4jError", text |-> <<"syntax", "error">>]

\* what the remote side may raise from an awaited call
RemoteErrors == {TransientFailure, DeadlockFailure, SyntaxFailure}

\* one retryable and one other
BasicRemoteErrors == {TransientFailure, SyntaxFailure}

\* what session.close() may raise
CloseFailure == [type |-> "Neo4jError", text |-> <<"close", "failed">>]

\* raised by the code itself
SessionBlocked ==
    [type |-> "Exception", text |-> <<"Session creation is currently blocked">>]

TransactionBlocked ==
    [type |-> "Exception", text |-> <<"Transaction execution is currently blocked">>]

UnknownSession == [type |-> "ValueError", text |-> <<"Unknown session">>]

RetriesExhausted ==
    [type |-> "Exception", text |-> <<"Transaction failed after", "max_retries", "retries">>]

\* the classes an exception class derives from (isinstance)
Bases(type) ==
    CASE type = "TransientError" -> {"TransientError", "Neo4jError", "Exception"}
      [] type = "Neo4jError"     -> {"Neo4jError", "Exception"}
      [] type = "ValueError"     -> {"ValueError", "Exception"}
      [] OTHER                   -> {"Exception"}

----------------------------------------------------------------------------
(* The world a coroutine step reads and writes, as one record *)

World ==
    [now          |-> now,
     sessions     |-> sessions,
     sstate       |-> sstate,
     next_sid     |-> next_sid,
     sm_cb        |-> sm_cb,
     retry_config |-> retry_config,
     tx_cb        |-> tx_cb,
     transactions |-> transactions,
     next_txid    |-> next_txid,
     task         |-> task,
     reaper       |-> reaper,
     locks        |-> locks]

\* the SessionState objects still referenced: by the table, by a close_session or by an
\* update_session_metrics in progress
Referenced(w) ==
    (w.sessions \cup {w.task[t].closing : t \in Tasks} \cup {w.task[t].state : t \in Tasks}
        \cup {w.reaper.closing}) \ {None}

Install(world) ==
    \E w \in {world} :
        /\ now' = w.now
        /\ sessions' = w.sessions
        /\ sstate' = [sid \in Referenced(w) |-> w.sstate[sid]]
        /\ retired' = [sid \in (DOMAIN retired) \cup ((DOMAIN w.sstate) \ Referenced(w)) |->
                          IF sid \in DOMAIN retired
                          THEN retired[sid]
                          ELSE [status |-> w.sstate[sid].status, errors |-> w.sstate[sid].errors]]
        /\ next_sid' = w.next_sid
        /\ sm_cb' = w.sm_cb
        /\ retry_config' = w.retry_config
        /\ tx_cb' = w.tx_cb
        /\ transactions' = w.transactions
        /\ next_txid' = w.next_txid
        /\ task' = w.task
        /\ reaper' = w.reaper
        /\ locks' = w.locks

----------------------------------------------------------------------------
(* EnhancedSessionManager *)

SessionState(id, session, t) ==
    [id                       |-> id,
     session                  |-> session,
     status                   |-> "CREATED",
     last_used_at             |-> t,
     queries_executed         |-> 0,
     transactions_started     |-> 0,
     transactions_committed   |-> 0,
     transactions_rolled_back |-> 0,
     errors                   |-> <<>>]

\* get_session_state: the first tracked state whose session is the handle, or None
get_session_state(w, session) ==
    LET found == {sid \in w.sessions : w.sstate[sid].session = session}
    IN  IF found = {} THEN None ELSE Min(found)

\* a variant that does not consult the breaker
get_session_unchecked(w) ==
    [ok |-> TRUE, w |-> w]

\* the part of get_session before "await self._driver.session(...)":
\* [ok |-> whether the breaker lets the call through, w |-> the world afterwards]
get_session_check(w) ==
    LET r == can_execute(w.sm_cb, "session_creation", w.now)
    IN  [ok |-> r.ok, w |-> [w EXCEPT !.sm_cb = r.b]]

\* get_session after the driver returned a session: track it, record the success
get_session_created(w) ==
    LET sid == w.next_sid
    IN  [w EXCEPT !.next_sid = sid + 1,
                  !.sstate   = DictSet(w.sstate, sid, SessionState(sid, sid, w.now)),
                  !.sessions = w.sessions \cup {sid},
                  !.sm_cb    = record_success(w.sm_cb, "session_creation")]

\* a variant that re-raises without telling the breaker
get_session_failed_unrecorded(w) == w

\* get_session after the driver raised: record the failure (the error is re-raised)
get_session_failed(w) ==
    [w EXCEPT !.sm_cb = record_failure(w.sm_cb, "session_creation", w.now)]

\* close_session up to "await session.close()": look the handle up, mark it CLOSING.
\* [sid |-> the id found or None, w |-> the world afterwards]
close_session_begin(w, session) ==
    LET sid == get_session_state(w, session)
    IN  IF sid = None
        THEN [sid |-> None, w |-> w]
        ELSE [sid |-> sid, w |-> [w EXCEPT !.sstate[sid].status = "CLOSING"]]

\* the finally of close_session
close_session_cleanup(w, sid) ==
    [w EXCEPT !.sessions = w.sessions \ {sid}]

\* a variant whose clean-up runs only after a close that succeeded
close_session_end_keeps_failed(w, sid, err) ==
    IF err = NoError
    THEN close_session_cleanup([w EXCEPT !.sstate[sid].status = "CLOSED"], sid)
    ELSE [w EXCEPT !.sstate[sid].status = "ERROR",
                   !.sstate[sid].errors = Append(@, err.text)]

\* close_session after session.close() returned (err = NoError) or raised
close_session_end(w, sid, err) ==
    close_session_cleanup(
        IF err = NoError
        THEN [w EXCEPT !.sstate[sid].status = "CLOSED"]
        ELSE [w EXCEPT !.sstate[sid].status = "ERROR",
                       !.sstate[sid].errors = Append(@, err.text)],
        sid)

\* the coroutine cleanup_loop as asyncio.create_task leaves it: created, not yet run.
\* pc: "start", "sleeping" (in asyncio.sleep), "closing" (in session.close()), "cancelling"
\* (cancel() called, CancelledError not yet delivered), "cancelled".
\* failures counts the errors the loop has logged and is read by no step.
NewReaper ==
    [pc       |-> "start",
     to_close |-> <<>>,      \* the rest of the list to_close of _cleanup_idle_sessions
     closing  |-> None,      \* session id held by close_session across its await
     failures |-> 0]

\* the ids of a set in dict order (insertion order: ascending ids)
RECURSIVE InOrder(_)
InOrder(S) ==
    IF S = {} THEN <<>> ELSE <<Min(S)>> \o InOrder(S \ {Min(S)})

\* the test of _cleanup_idle_sessions on one SessionState
IsIdle(state, t, session_timeout) ==
    /\ state.status \in {"IDLE", "ACTIVE"}
    /\ t - state.last_used_at > session_timeout

\* the first loop of _cleanup_idle_sessions: the list to_close
idle_sessions(w) ==
    InOrder({sid \in w.sessions : IsIdle(w.sstate[sid], w.now, sm_config.session_timeout)})

\* called by a coroutine: no other caller runs between its first line and its last, and
\* _metrics_lock is taken and given back
update_session_metrics(w, session, metric) ==
    LET sid == get_session_state(w, session)
    IN  IF sid = None
        THEN w
        ELSE [w EXCEPT !.sstate[sid][metric]      = @ + 1,
                       !.sstate[sid].last_used_at = w.now,
                       !.sstate[sid].status       = "ACTIVE",
                       !.locks["session_manager._metrics_lock"] = None]

----------------------------------------------------------------------------
(* The calling coroutines *)

\* op: the entry point called; pc: the await the coroutine is suspended at.
\* attempts, failed, last_failure, slept, trace, recorded, closed_with, targets, close_calls,
\* close_failures and chunks are history: they record what the call has done so far and are
\* read by no step.
IdleTask ==
    [op              |-> "none",
     pc              |-> "idle",
     session         |-> None,      \* the session handle of the call
     queries         |-> <<>>,
     retry_on_errors |-> {},
     txid            |-> None,
     retries         |-> 0,
     i               |-> 0,         \* position in "for query_info in queries"
     results         |-> <<>>,
     exc             |-> NoError,   \* the exception on its way through __aexit__
     wake            |-> 0,         \* end of the asyncio.sleep in progress
     closing         |-> None,      \* session id held by close_session across its await
     metric_value    |-> 0,         \* update_session_metrics: its argument value
     state           |-> None,      \* update_session_metrics: the SessionState it found
     current         |-> 0,         \* update_session_metrics: the counter as it read it
     outcome         |-> "none",    \* "returned" or "raised", once decided
     value           |-> <<>>,
     error           |-> NoError,
     attempts        |-> 0,         \* begin_transaction calls issued
     failed          |-> 0,         \* exceptions the except clause has handled
     last_failure    |-> NoError,   \* the last of them
     slept           |-> <<>>,      \* the delays slept
     trace           |-> <<>>,      \* run/consume calls issued in the current attempt
     recorded        |-> 0,         \* record_failure calls made for the transaction's key
     closed_with     |-> None,      \* the handle passed to close_session by the finally
     remaining       |-> <<>>,      \* close_all_sessions: the handles of the list still to close
     targets         |-> <<>>,      \* close_all_sessions: the handles of list(self._sessions.values())
     close_calls     |-> <<>>,      \* close_all_sessions: the handles passed to close_session
     close_failures  |-> 0,         \* close_all_sessions: the failures it has logged
     batch           |-> <<>>,      \* execute_batch: the list given
     batch_size      |-> 0,
     batch_i         |-> 0,         \* i of "for i in range(0, len(batch), batch_size)"
     batch_results   |-> <<>>,
     chunks          |-> <<>>]      \* execute_batch: the execute_query calls made, one record each

\* the call of task t is over: it returned value or raised error, and its locals are gone
finish(w, t, outcome, value, error) ==
    [w EXCEPT !.task[t].pc      = "done",
              !.task[t].outcome = outcome,
              !.task[t].value   = value,
              !.task[t].error   = error,
              !.task[t].i       = 0,
              !.task[t].results = <<>>,
              !.task[t].exc     = NoError,
              !.task[t].wake    = 0,
              !.task[t].closing = None,
              !.task[t].state   = None,
              !.task[t].current = 0,
              !.task[t].trace   = <<>>,
              !.task[t].remaining = <<>>,
              !.task[t].batch_i = 0,
              !.task[t].batch_results = <<>>]

----------------------------------------------------------------------------
(* Neo4jQueryExecutor.execute_batch *)

\* a variant whose slices start one item early
batch_slice_overlapping(batch, i, batch_size) ==
    SubSeq(batch, IF i = 0 THEN 1 ELSE i, MinOf(i + batch_size, Len(batch)))

\* "batch[i:i + batch_size]", i counted from 0
batch_slice(batch, i, batch_size) ==
    SubSeq(batch, i + 1, MinOf(i + batch_size, Len(batch)))

\* the one statement execute_query hands to execute_in_transaction for a chunk
chunk_query(current_batch) ==
    <<[query |-> 1, parameters |-> current_batch]>>

\* the for loop of execute_batch from its head up to the await in get_session of the
\* execute_query call it makes, or up to "return results"
batch_loop(w, t) ==
    LET tk == w.task[t]
    IN  IF tk.batch_i >= Len(tk.batch)
        THEN finish(w, t, "returned", tk.batch_results, NoError)
        ELSE LET current_batch == batch_slice(tk.batch, tk.batch_i, tk.batch_size)
                 sent == [items |-> current_batch, session |-> None, txid |-> None,
                          outcome |-> "none", error |-> NoError]
                 w1 == [w EXCEPT !.task[t] =
                           [IdleTask EXCEPT !.op              = "execute_batch",
                                            !.queries         = chunk_query(current_batch),
                                            !.retry_on_errors = tk.retry_on_errors,
                                            !.batch           = tk.batch,
                                            !.batch_size      = tk.batch_size,
                                            !.batch_i         = tk.batch_i,
                                            !.batch_results   = tk.batch_results,
                                            !.chunks          = Append(tk.chunks, sent)]]
                 r  == get_session_check(w1)
             IN  IF r.ok
                 THEN [r.w EXCEPT !.task[t].pc = "await_session"]
                 ELSE finish([r.w EXCEPT !.task[t].chunks[Len(tk.chunks) + 1] =
                                             [@ EXCEPT !.outcome = "raised",
                                                       !.error   = SessionBlocked]],
                             t, "raised", <<>>, SessionBlocked)

\* a variant that goes on with the next chunk
batch_raised_continues(w, t, error) ==
    batch_loop([w EXCEPT !.task[t].batch_i = @ + w.task[t].batch_size], t)

\* "except Exception as e: ... raise" around the execute_query call
batch_raised(w, t, error) ==
    finish(w, t, "raised", <<>>, error)

\* execute_query is over: a call of its own is done, a chunk of execute_batch goes back
\* into the for loop
executor_return(w, t, outcome, value, error) ==
    LET tk == w.task[t]
    IN  IF tk.op # "execute_batch"
        THEN finish(w, t, outcome, value, error)
        ELSE LET w1 == [w EXCEPT !.task[t].chunks[Len(tk.chunks)] =
                                     [@ EXCEPT !.session = tk.session,
                                               !.txid    = tk.txid,
                                               !.outcome = outcome,
                                               !.error   = error]]
             IN  IF outcome = "raised"
                 THEN batch_raised(w1, t, error)
                 ELSE batch_loop([w1 EXCEPT !.task[t].batch_results = Append(@, value[1]),
                                            !.task[t].batch_i       = @ + tk.batch_size], t)

\* execute_batch up to its first await: "batch_size or self._components.chunk_size"
execute_batch(w, t, batch, batch_size, retry_on_errors) ==
    batch_loop([w EXCEPT !.task[t] =
                   [IdleTask EXCEPT !.op              = "execute_batch",
                                    !.batch           = batch,
                                    !.batch_size      = IF batch_size \in {None, 0}
                                                        THEN DefaultChunkSize
                                                        ELSE batch_size,
                                    !.retry_on_errors = retry_on_errors]], t)

----------------------------------------------------------------------------
(* Neo4jQueryExecutor.execute_query / execute_transaction: the finally clause *)

\* a variant without the finally clause
executor_finally_skips_close(w, t, outcome, value, error) ==
    finish(w, t, outcome, value, error)

\* a variant that starts close_session and does not await it
executor_finally_detached(w, t, outcome, value, error) ==
    LET tk == w.task[t]
    IN  IF tk.session = None
        THEN executor_return(w, t, outcome, value, error)
        ELSE executor_return([close_session_begin(w, tk.session).w
                                 EXCEPT !.task[t].closed_with = tk.session],
                             t, outcome, value, error)

\* "if session: await close_session(session)", up to the await inside close_session
executor_finally(w, t, outcome, value, error) ==
    LET tk == w.task[t]
    IN  IF tk.session = None
        THEN executor_return(w, t, outcome, value, error)
        ELSE LET r  == close_session_begin(w, tk.session)
                 w1 == [r.w EXCEPT !.task[t].closed_with = tk.session]
             IN  IF r.sid = None
                 THEN executor_return(w1, t, outcome, value, error)
                 ELSE [w1 EXCEPT !.task[t].pc      = "await_close",
                                 !.task[t].closing = r.sid,
                                 !.task[t].outcome = outcome,
                                 !.task[t].value   = value,
                                 !.task[t].error   = error]

\* execute_in_transaction hands its result or its exception to its caller
leave(w, t, outcome, value, error) ==
    LET op == w.task[t].op
    IN  IF op \in {"execute_query", "execute_batch"}
        THEN executor_finally(w, t, outcome,
                              IF outcome = "returned" THEN <<value[1]>> ELSE value,  \* result[0]
                              error)
        ELSE IF op = "execute_transaction"
        THEN executor_finally(w, t, outcome, value, error)
        ELSE finish(w, t, outcome, value, error)

----------------------------------------------------------------------------
(* EnhancedTransactionManager *)

RetryConfig(strategy, max_retries, initial_delay, max_delay) ==
    [strategy         |-> strategy,
     max_retries      |-> max_retries,
     initial_delay    |-> initial_delay,
     max_delay        |-> max_delay,
     error_types      |-> {"TransientError"},
     retry_on_strings |-> DefaultRetryOnStrings]

TransactionState(id, session_id, queries) ==
    [id          |-> id,
     session_id  |-> session_id,
     status      |-> "STARTED",
     queries     |-> queries,
     error       |-> <<>>,
     retry_count |-> 0]

\* a variant that does not clamp to max_delay
_get_retry_delay_unclamped(cfg, retry_count) ==
    IF cfg.strategy = "EXPONENTIAL"
    THEN cfg.initial_delay * (2 ^ retry_count)
    ELSE IF cfg.strategy = "LINEAR"
    THEN cfg.initial_delay * (retry_count + 1)
    ELSE cfg.initial_delay

_get_retry_delay(cfg, retry_count) ==
    LET delay == IF cfg.strategy = "EXPONENTIAL"
                 THEN cfg.initial_delay * (2 ^ retry_count)
                 ELSE IF cfg.strategy = "LINEAR"
                 THEN cfg.initial_delay * (retry_count + 1)
                 ELSE cfg.initial_delay
    IN  MinOf(delay, cfg.max_delay)

_should_retry(cfg, error) ==
    \/ \E ty \in cfg.error_types : ty \in Bases(error.type)
    \/ \E s \in cfg.retry_on_strings : Contains(error.text, s)

\* a variant that retries whatever the error
should_retry_any_error(cfg, retries, error) ==
    retries < cfg.max_retries

\* "retries < max_retries and self._should_retry(e)"
should_retry(cfg, retries, error) ==
    retries < cfg.max_retries /\ _should_retry(cfg, error)

\* the loop condition "while retries <= max_retries"
loop_continues(cfg, retries) ==
    retries <= cfg.max_retries

\* a variant that tells the breaker of every exception it handles
except_clause_records_each(w, t, e) ==
    LET tk   == w.task[t]
        cfg  == w.retry_config
        w1   == [w EXCEPT !.transactions[tk.txid].status      = "FAILED",
                          !.transactions[tk.txid].error       = e.text,
                          !.transactions[tk.txid].retry_count = tk.retries,
                          !.task[t].failed = @ + 1,
                          !.task[t].last_failure = e,
                          !.task[t].exc    = NoError]
        w2   == IF collect_transaction_metrics
                THEN update_session_metrics(w1, tk.session, "transactions_rolled_back")
                ELSE w1
        w3   == [w2 EXCEPT !.tx_cb = record_failure(w2.tx_cb, tk.txid, w2.now),
                           !.task[t].recorded = @ + 1]
    IN  IF ~should_retry(cfg, tk.retries, e)
        THEN leave(w3, t, "raised", <<>>, e)
        ELSE [w3 EXCEPT !.task[t].pc    = "await_sleep",
                        !.task[t].wake  = w3.now + _get_retry_delay(cfg, tk.retries),
                        !.task[t].slept = Append(@, _get_retry_delay(cfg, tk.retries))]

\* the except clause of the retry loop, entered with exception e
except_clause(w, t, e) ==
    LET tk   == w.task[t]
        cfg  == w.retry_config
        w1   == [w EXCEPT !.transactions[tk.txid].status      = "FAILED",
                          !.transactions[tk.txid].error       = e.text,
                          !.transactions[tk.txid].retry_count = tk.retries,
                          !.task[t].failed = @ + 1,
                          !.task[t].last_failure = e,
                          !.task[t].exc    = NoError]
        w2   == IF collect_transaction_metrics
                THEN update_session_metrics(w1, tk.session, "transactions_rolled_back")
                ELSE w1
    IN  IF ~should_retry(cfg, tk.retries, e)
        THEN leave([w2 EXCEPT !.tx_cb = record_failure(w2.tx_cb, tk.txid, w2.now),
                              !.task[t].recorded = @ + 1],
                   t, "raised", <<>>, e)
        ELSE [w2 EXCEPT !.task[t].pc    = "await_sleep",
                        !.task[t].wake  = w2.now + _get_retry_delay(cfg, tk.retries),
                        !.task[t].slept = Append(@, _get_retry_delay(cfg, tk.retries))]

\* the code after the loop: "we've exhausted retries"
after_loop(w, t) ==
    leave([w EXCEPT !.tx_cb = record_failure(w.tx_cb, w.task[t].txid, w.now),
                    !.task[t].recorded = @ + 1],
          t, "raised", <<>>, RetriesExhausted)

\* one turn of the retry loop, up to "session.begin_transaction()"
attempt(w, t) ==
    LET tk == w.task[t]
    IN  IF loop_continues(w.retry_config, tk.retries)
        THEN LET r  == can_execute(w.tx_cb, tk.txid, w.now)
                 w1 == [w EXCEPT !.tx_cb = r.b]
             IN  IF ~r.ok
                 THEN except_clause(w1, t, TransactionBlocked)
                 ELSE [w1 EXCEPT !.task[t].pc       = "await_begin",
                                 !.task[t].attempts = @ + 1,
                                 !.task[t].trace    = <<>>]
        ELSE after_loop(w, t)

\* the for loop reaches statement i, or is over and the commit is issued
next_statement(w, t, i) ==
    IF i <= Len(w.task[t].queries)
    THEN [w EXCEPT !.task[t].pc    = "await_run",
                   !.task[t].i     = i,
                   !.task[t].trace = Append(@, [op |-> "run", query |-> w.task[t].queries[i]])]
    ELSE [w EXCEPT !.task[t].pc = "await_commit",
                   !.task[t].i  = i]

\* a variant that keeps the results of the attempts before
kept_results(results) == results

\* the results list at the start of the with body
fresh_results(results) == <<>>

\* the transaction is open: the with body starts
after_begin(w, t) ==
    LET tk == w.task[t]
        w1 == IF collect_transaction_metrics
              THEN update_session_metrics(w, tk.session, "transactions_started")
              ELSE w
    IN  next_statement([w1 EXCEPT !.task[t].results = fresh_results(@)], t, 1)

\* tx.run returned: result.consume() is issued
after_run(w, t) ==
    [w EXCEPT !.task[t].pc    = "await_consume",
              !.task[t].trace = Append(@, [op |-> "consume",
                                          query |-> w.task[t].queries[w.task[t].i]])]

\* results.append(eager_result)
append_result(results, r) == Append(results, r)

\* result.consume() returned the summary of statement i
after_consume(w, t) ==
    LET tk == w.task[t]
        r  == [query |-> tk.queries[tk.i], attempt |-> tk.attempts]
        w1 == [w EXCEPT !.task[t].results = append_result(@, r)]
        w2 == update_session_metrics(w1, tk.session, "queries_executed")
    IN  next_statement(w2, t, tk.i + 1)

\* tx.commit() returned
\* a variant whose loop goes on after the commit
after_commit_goes_on(w, t) ==
    LET tk == w.task[t]
        w1 == [w EXCEPT !.transactions[tk.txid].status = "COMMITTED"]
    IN  attempt([w1 EXCEPT !.tx_cb = record_success(w1.tx_cb, tk.txid)], t)

after_commit(w, t) ==
    LET tk == w.task[t]
        w1 == [w EXCEPT !.transactions[tk.txid].status = "COMMITTED"]
        w2 == IF collect_transaction_metrics
              THEN update_session_metrics(w1, tk.session, "transactions_committed")
              ELSE w1
        w3 == [w2 EXCEPT !.tx_cb = record_success(w2.tx_cb, tk.txid)]
    IN  leave(w3, t, "returned", tk.results, NoError)

\* run, consume or commit raised e inside the with body: __aexit__ is awaited
raised_in_body(w, t, e) ==
    [w EXCEPT !.task[t].pc = "await_aexit", !.task[t].exc = e]

\* a variant without "retries += 1"
after_sleep_keeps_retries(w, t) ==
    attempt([w EXCEPT !.now = IF w.now < w.task[t].wake THEN w.task[t].wake ELSE w.now], t)

\* asyncio.sleep is over: "retries += 1" and the next turn of the loop
after_sleep(w, t) ==
    LET tk == w.task[t]
        w1 == [w EXCEPT !.now = IF w.now < tk.wake THEN tk.wake ELSE w.now,
                        !.task[t].retries = @ + 1]
    IN  attempt(w1, t)

\* a variant that registers the TransactionState before it resolves the session
execute_in_transaction_registers_first(w, t) ==
    LET tk   == w.task[t]
        w0   == IF tk.retry_on_errors # {}
                THEN [w EXCEPT !.retry_config.retry_on_strings = tk.retry_on_errors]
                ELSE w
        sid  == get_session_state(w0, tk.session)
        txid == w0.next_txid
        w1   == [w0 EXCEPT !.next_txid    = txid + 1,
                          !.transactions = DictSet(@, txid,
                                               TransactionState(txid, sid, tk.queries)),
                          !.task[t].txid    = txid,
                          !.task[t].retries = 0]
    IN  IF sid = None
        THEN leave(w1, t, "raised", <<>>, UnknownSession)
        ELSE attempt(w1, t)

\* a variant whose with block reaches over the retry loop
register_transaction_keeps_lock(w, t, tx_state) ==
    [w EXCEPT !.transactions = DictSet(@, tx_state.id, tx_state),
              !.locks["transaction_manager._transaction_lock"] = t]

\* "with self._transaction_lock: self._active_transactions[transaction_id] = tx_state":
\* the lock is taken and given back
register_transaction(w, t, tx_state) ==
    [w EXCEPT !.transactions = DictSet(@, tx_state.id, tx_state),
              !.locks["transaction_manager._transaction_lock"] = None]

\* execute_in_transaction from its first line to its first await
execute_in_transaction(w, t) ==
    LET tk  == w.task[t]
        w1  == IF tk.retry_on_errors # {}
               THEN [w EXCEPT !.retry_config.retry_on_strings = tk.retry_on_errors]
               ELSE w
        sid == get_session_state(w1, tk.session)
    IN  IF sid = None
        THEN leave(w1, t, "raised", <<>>, UnknownSession)
        ELSE LET txid == w1.next_txid
                 w2   == [register_transaction(w1, t, TransactionState(txid, sid, tk.queries))
                             EXCEPT !.next_txid       = txid + 1,
                                    !.task[t].txid    = txid,
                                    !.task[t].retries = 0]
             IN  attempt(w2, t)

----------------------------------------------------------------------------
(* Neo4jDatabaseConnection *)

RETRYABLE_EXCEPTIONS == {"TransientError", "ServiceUnavailable", "SessionExpired", "AuthError"}

\* what driver.execute_query may raise: each retryable class, and one that is not
DbErrors ==
    { [type |-> ty, text |-> <<ty>>] : ty \in RETRYABLE_EXCEPTIONS } \cup {SyntaxFailure}

\* the connection as __init__ leaves it, and its caller before its first call.
\* made counts the driver_factory calls: the handles made are 1..made.
\* call.failed, call.acquired, call.began_with and call.used are history: the attempts that
\* raised a retryable exception, the acquire_driver calls of this execute call, the handle
\* the connection held when the call began and the handle the current attempt runs on.
Neo4jDatabaseConnection(max_retry_attempts) ==
    [max_retry_attempts |-> max_retry_attempts,
     _driver            |-> None,
     query_set          |-> {},
     made               |-> 0,
     calls              |-> 0,
     call               |-> [pc |-> "idle", query |-> None, attempts |-> 0, e |-> NoError,
                             failed |-> 0, acquired |-> 0, began_with |-> None, used |-> None,
                             outcome |-> "none", value |-> <<>>, error |-> NoError]]

acquire_driver(c) ==
    [c EXCEPT !._driver       = c.made + 1,
              !.made          = c.made + 1,
              !.call.acquired = @ + 1]

\* the property driver: the connection once the handle has been read
driver(c) ==
    IF c._driver = None THEN acquire_driver(c) ELSE c

log_query_start(c, query) ==
    IF query \notin c.query_set
    THEN [driver(c) EXCEPT !.query_set = @ \cup {query}]
    ELSE c

\* the head of the loop of execute: "attempts += 1", then _execute_query up to its await
_execute_query(c) ==
    LET c1 == driver(c)
    IN  [c1 EXCEPT !.call.attempts = @ + 1,
                   !.call.used     = c1._driver,
                   !.call.pc       = "await_query"]

\* a variant that allows one attempt more
retry_exhausted_late(c) ==
    c.call.attempts > c.max_retry_attempts

\* "if attempts >= self.max_retry_attempts"
retry_exhausted(c) ==
    c.call.attempts >= c.max_retry_attempts

\* a variant that keeps the handle it has
after_retry_sleep_keeps_driver(c) ==
    IF retry_exhausted(c)
    THEN [c EXCEPT !.call.pc = "done", !.call.outcome = "raised", !.call.error = c.call.e]
    ELSE _execute_query(c)

\* the except clause of execute after its asyncio.sleep
after_retry_sleep(c) ==
    LET c1 == acquire_driver(c)
    IN  IF retry_exhausted(c1)
        THEN [c1 EXCEPT !.call.pc = "done", !.call.outcome = "raised", !.call.error = c.call.e]
        ELSE _execute_query(c1)

----------------------------------------------------------------------------
(* QueryBatch (query.py) *)

QueryBatch(query_statement, batched_parameter_sets, is_apoc) ==
    [query_statement        |-> query_statement,
     batched_parameter_sets |-> batched_parameter_sets,
     is_apoc                |-> is_apoc]

\* a variant that goes by the batch's own flag
as_query_by_own_flag(self, apoc_iterate, chunk_size, execute_chunks_in_parallel, retries_per_chunk) ==
    [query_statement |-> IF self.is_apoc THEN "COMMIT_QUERY" ELSE "NON_APOC_COMMIT_QUERY",
     parameters      |-> [iterate_params |->
                              [batched_parameter_sets |-> self.batched_parameter_sets],
                          batched_query              |-> self.query_statement,
                          iterable_query             |-> "UNWIND_QUERY",
                          execute_chunks_in_parallel |-> execute_chunks_in_parallel,
                          chunk_size                 |-> chunk_size,
                          retries_per_chunk          |-> retries_per_chunk],
     is_apoc         |-> self.is_apoc]

\* the Query it returns; the templates are named, not spelled out
as_query(self, apoc_iterate, chunk_size, execute_chunks_in_parallel, retries_per_chunk) ==
    [query_statement |-> IF apoc_iterate THEN "COMMIT_QUERY" ELSE "NON_APOC_COMMIT_QUERY",
     parameters      |-> [iterate_params |->
                              [batched_parameter_sets |-> self.batched_parameter_sets],
                          batched_query              |-> self.query_statement,
                          iterable_query             |-> "UNWIND_QUERY",
                          execute_chunks_in_parallel |-> execute_chunks_in_parallel,
                          chunk_size                 |-> chunk_size,
                          retries_per_chunk          |-> retries_per_chunk],
     is_apoc         |-> apoc_iterate]

----------------------------------------------------------------------------
(* Neo4jResult and Neo4jQueryStatistics (result.py) *)

APOC_BATCH_QUERY_RESPONSE_FIELDS ==
    {"batches", "total", "timeTaken", "committedOperations", "failedOperations",
     "failedBatches", "retries", "errorMessages", "wasTerminated", "updateStatistics"}

\* dacite.from_dict(ApocBatchResponse, row). A row gives some of the fields, each with a
\* value of the field's type ("sent") or of another type ("bad"). Every field of
\* ApocBatchResponse has a default, so a field the row lacks gets its default (0, False,
\* empty); a value of the wrong type raises.
from_dict(row) ==
    IF \E f \in DOMAIN row : row[f] = "bad"
    THEN [ok |-> FALSE, value |-> <<>>,
          error |-> [type |-> "WrongTypeError", text |-> <<"wrong value type">>]]
    ELSE [ok |-> TRUE,
          value |-> [f \in APOC_BATCH_QUERY_RESPONSE_FIELDS |->
                        IF f \in DOMAIN row THEN row[f] ELSE "default"],
          error |-> NoError]

\* Neo4jQueryStatistics.from_result; apoc_response is <<>> for None. With a response it
\* reads apoc_response.batch, an attribute ApocBatchResponse does not have.
from_result(summary, apoc_response) ==
    IF apoc_response # <<>>
    THEN [ok |-> FALSE, value |-> <<>>,
          error |-> [type |-> "AttributeError", text |-> <<"no attribute", "batch">>]]
    ELSE [ok |-> TRUE,
          value |-> [query_type    |-> summary.query_type,
                     timing        |-> [planning_time_ms   |-> summary.result_available_after,
                                        processing_time_ms |-> summary.result_consumed_after,
                                        total_time_ms      |-> summary.result_available_after
                                                               + summary.result_consumed_after,
                                        apoc_time_ms       |-> 0],
                     write_metrics |-> summary.counters,
                     is_apoc_query |-> FALSE],
          error |-> NoError]

\* Neo4jResult.obtain_query_statistics, with what from_dict gave it
obtain_query_statistics(query, records, summary) ==
    IF query.is_apoc /\ records # <<>>
    THEN LET d == from_dict(records[1])
         IN  IF ~d.ok
             THEN [ok |-> FALSE, value |-> <<>>, error |-> d.error, decoded |-> <<>>]
             ELSE LET r == from_result(summary, d.value)
                  IN  [ok |-> r.ok, value |-> r.value, error |-> r.error,
                       decoded |-> d.value]
    ELSE LET r == from_result(summary, <<>>)
         IN  [ok |-> r.ok, value |-> r.value, error |-> r.error, decoded |-> <<>>]

----------------------------------------------------------------------------
(* The clock *)

Tick ==
    /\ now < MaxTime
    /\ now' = now + 1

\* d seconds pass while every coroutine stays where it is
Elapse(d, horizon) ==
    /\ now + d <= horizon
    /\ now' = now + d
    /\ UNCHANGED <<breakerVars, configVars, managerVars>>

----------------------------------------------------------------------------
(* Entry points *)

\* the statement lists a caller passes: n statements, each named by its position
\* (the statements are opaque to the managers, so only their number and order matter)
QueryLists(longest) == { [i \in 1..n |-> i] : n \in 0..longest }

\* the one statement of execute_query
SingleQuery == { <<1>> }

ForeignHandle == -1

\* every handle a caller can hold: a session object the driver has produced, or another object
Handles == (1..(next_sid - 1)) \cup {ForeignHandle}

\* the tasks are interchangeable: a task makes its first call once the tasks before it have
CanStart(t) ==
    /\ task[t].pc \in {"idle", "done"}
    /\ calls < call_budget
    /\ \A u \in Tasks : u < t => task[u].pc # "idle"

\* Neo4jQueryExecutor.execute_query and execute_transaction, up to the await in get_session
executor_call(w, t, op, queries, retry_on_errors) ==
    LET w1 == [w EXCEPT !.task[t] = [IdleTask EXCEPT !.op = op,
                                                     !.queries = queries,
                                                     !.retry_on_errors = retry_on_errors]]
        r  == get_session_check(w1)
    IN  IF r.ok
        THEN [r.w EXCEPT !.task[t].pc = "await_session"]
        ELSE executor_finally(r.w, t, "raised", <<>>, SessionBlocked)

ExecuteQuery(t, roes) ==
    /\ CanStart(t)
    /\ \E qs \in SingleQuery, roe \in roes :
           Install(executor_call(World, t, "execute_query", qs, roe))
    /\ calls' = calls + 1
    /\ UNCHANGED <<breakerVars, configVars>>

ExecuteTransaction(t, roes) ==
    /\ CanStart(t)
    /\ \E qs \in QueryLists(ExecutorMaxQueries), roe \in roes :
           Install(executor_call(World, t, "execute_transaction", qs, roe))
    /\ calls' = calls + 1
    /\ UNCHANGED <<breakerVars, configVars>>

\* the lists given to execute_batch, of items that differ
Batches == { [i \in 1..n |-> 10 + i] : n \in 0..MaxBatch }

\* the batch_size arguments: None, or a size of the caller's own
BatchSizes == {None} \cup (1..MaxBatchSize)

ExecuteBatch(t) ==
    /\ CanStart(t)
    /\ \E batch \in Batches, batch_size \in BatchSizes, roe \in NoRetryOnErrors :
           Install(execute_batch(World, t, batch, batch_size, roe))
    /\ calls' = calls + 1
    /\ UNCHANGED <<breakerVars, configVars>>

\* EnhancedSessionManager.get_session called by the task itself
GetSession(t) ==
    /\ CanStart(t)
    /\ LET w1 == [World EXCEPT !.task[t] = [IdleTask EXCEPT !.op = "get_session"]]
           r  == get_session_check(w1)
       IN  Install(IF r.ok
                   THEN [r.w EXCEPT !.task[t].pc = "await_session"]
                   ELSE finish(r.w, t, "raised", <<>>, SessionBlocked))
    /\ calls' = calls + 1
    /\ UNCHANGED <<breakerVars, configVars>>

\* EnhancedTransactionManager.execute_in_transaction called by the task itself
ExecuteInTransaction(t, lists) ==
    /\ CanStart(t)
    /\ \E h \in Handles, qs \in lists, roe \in RetryOnErrorsArgs :
           Install(execute_in_transaction(
               [World EXCEPT !.task[t] = [IdleTask EXCEPT !.op = "execute_in_transaction",
                                                          !.session = h,
                                                          !.queries = qs,
                                                          !.retry_on_errors = roe]], t))
    /\ calls' = calls + 1
    /\ UNCHANGED <<breakerVars, configVars>>

\* a variant that raises on a handle it does not track
close_session_unknown_raises(w, t) ==
    finish(w, t, "raised", <<>>, UnknownSession)

\* close_session on a handle it does not track: "logger.warning(...); return"
close_session_unknown(w, t) ==
    finish(w, t, "returned", <<>>, NoError)

\* EnhancedSessionManager.close_session called by the task itself
CloseSession(t) ==
    /\ CanStart(t)
    /\ \E h \in Handles :
           LET w1 == [World EXCEPT !.task[t] = [IdleTask EXCEPT !.op = "close_session",
                                                                !.session = h]]
               r  == close_session_begin(w1, h)
           IN  Install(IF r.sid = None
                       THEN close_session_unknown(r.w, t)
                       ELSE [r.w EXCEPT !.task[t].pc = "await_close",
                                        !.task[t].closing = r.sid,
                                        !.task[t].closed_with = h])
    /\ calls' = calls + 1
    /\ UNCHANGED <<breakerVars, configVars>>

\* EnhancedSessionManager.update_session_metrics called by the task itself
UpdateSessionMetrics(t) ==
    /\ CanStart(t)
    /\ \E h \in Handles :
           LET w1 == [World EXCEPT !.task[t] = [IdleTask EXCEPT !.op = "update_session_metrics",
                                                                !.session = h]]
           IN  Install(finish(update_session_metrics(w1, h, "queries_executed"),
                              t, "returned", <<>>, NoError))
    /\ calls' = calls + 1
    /\ UNCHANGED <<breakerVars, configVars>>

\* list(self._sessions.values()), as the handles of the states
tracked_handles(w) ==
    LET ids == InOrder(w.sessions)
    IN  [i \in 1..Len(ids) |-> w.sstate[ids[i]].session]

\* the loop of close_all_sessions, up to the await inside the next close_session
RECURSIVE close_all_loop(_, _)
close_all_loop(w, t) ==
    LET tk == w.task[t]
    IN  IF tk.remaining = <<>>
        THEN finish(w, t, "returned", <<>>, NoError)
        ELSE LET h  == Head(tk.remaining)
                 r  == close_session_begin(w, h)
                 w1 == [r.w EXCEPT !.task[t].remaining   = Tail(@),
                                   !.task[t].close_calls = Append(@, h)]
             IN  IF r.sid = None
                 THEN close_all_loop(w1, t)
                 ELSE [w1 EXCEPT !.task[t].pc      = "await_close",
                                 !.task[t].closing = r.sid]

\* close_all_sessions once the reaper is gone: take the list and start closing
close_all_after_cancel(w, t) ==
    close_all_loop([w EXCEPT !.task[t].remaining = tracked_handles(w),
                             !.task[t].targets   = tracked_handles(w)], t)

\* a variant without the try/except around close_session
close_all_stops_on_error(w, t, err) ==
    IF err = NoError
    THEN close_all_loop([w EXCEPT !.task[t].closing = None], t)
    ELSE finish(w, t, "raised", <<>>, err)

\* close_all_sessions after one close_session returned or raised: log, go on
close_all_next(w, t, err) ==
    close_all_loop([w EXCEPT !.task[t].closing        = None,
                             !.task[t].close_failures = IF err = NoError THEN @ ELSE @ + 1], t)

\* close_all_sessions up to "await self._cleanup_task"
close_all_sessions(w, t) ==
    IF w.reaper.pc = "cancelled"
    THEN close_all_after_cancel(w, t)
    ELSE [w EXCEPT !.reaper.pc  = "cancelling",
                   !.task[t].pc = "await_reaper"]

\* EnhancedSessionManager.close_all_sessions (Neo4jQueryExecutor.close) called by the task
CloseAllSessions(t) ==
    /\ CanStart(t)
    /\ Install(close_all_sessions(
           [World EXCEPT !.task[t] = [IdleTask EXCEPT !.op = "close_all_sessions"]], t))
    /\ calls' = calls + 1
    /\ UNCHANGED <<breakerVars, configVars>>

----------------------------------------------------------------------------
(* Resumptions: the awaited call returns or raises *)

\* self._driver.session(...) returned
SessionOpened(t) ==
    /\ task[t].pc = "await_session"
    /\ LET handle == next_sid
           w1     == [get_session_created(World) EXCEPT !.task[t].session = handle]
       IN  Install(IF task[t].op = "get_session"
                   THEN finish(w1, t, "returned", <<handle>>, NoError)
                   ELSE execute_in_transaction(w1, t))
    /\ UNCHANGED <<breakerVars, configVars, calls>>

\* self._driver.session(...) raised
SessionOpenFails(t) ==
    /\ task[t].pc = "await_session"
    /\ \E e \in remote_errors :
           Install(IF task[t].op = "get_session"
                   THEN finish(get_session_failed(World), t, "raised", <<>>, e)
                   ELSE executor_finally(get_session_failed(World), t, "raised", <<>>, e))
    /\ UNCHANGED <<breakerVars, configVars, calls>>

BeginTransactionOk(t) ==
    /\ task[t].pc = "await_begin"
    /\ Install(after_begin(World, t))
    /\ UNCHANGED <<breakerVars, configVars, calls>>

BeginTransactionFails(t) ==
    /\ task[t].pc = "await_begin"
    /\ \E e \in remote_errors : Install(except_clause(World, t, e))
    /\ UNCHANGED <<breakerVars, configVars, calls>>

RunOk(t) ==
    /\ task[t].pc = "await_run"
    /\ Install(after_run(World, t))
    /\ UNCHANGED <<breakerVars, configVars, calls>>

ConsumeOk(t) ==
    /\ task[t].pc = "await_consume"
    /\ Install(after_consume(World, t))
    /\ UNCHANGED <<breakerVars, configVars, calls>>

CommitOk(t) ==
    /\ task[t].pc = "await_commit"
    /\ Install(after_commit(World, t))
    /\ UNCHANGED <<breakerVars, configVars, calls>>

\* tx.run, result.consume or tx.commit raised
BodyFails(t) ==
    /\ task[t].pc \in {"await_run", "await_consume", "await_commit"}
    /\ \E e \in remote_errors : Install(raised_in_body(World, t, e))
    /\ UNCHANGED <<breakerVars, configVars, calls>>

\* __aexit__ is over: the exception reaches the except clause
AexitDone(t) ==
    /\ task[t].pc = "await_aexit"
    /\ Install(except_clause(World, t, task[t].exc))
    /\ UNCHANGED <<breakerVars, configVars, calls>>

SleepDone(t) ==
    /\ task[t].pc = "await_sleep"
    /\ Install(after_sleep(World, t))
    /\ UNCHANGED <<breakerVars, configVars, calls>>

\* what the caller of close_session does with its outcome
closed(w, t, err) ==
    LET tk == w.task[t]
    IN  IF tk.op = "close_session"
        THEN IF err = NoError
             THEN finish(w, t, "returned", <<>>, NoError)
             ELSE finish(w, t, "raised", <<>>, err)
        ELSE IF tk.op = "close_all_sessions"
        THEN close_all_next(w, t, err)
        ELSE executor_return(w, t, tk.outcome, tk.value, tk.error)  \* the error is logged

\* session.close() returned
CloseOk(t) ==
    /\ task[t].pc = "await_close"
    /\ Install(closed(close_session_end(World, task[t].closing, NoError), t, NoError))
    /\ UNCHANGED <<breakerVars, configVars, calls>>

\* session.close() raised
CloseFails(t) ==
    /\ task[t].pc = "await_close"
    /\ Install(closed(close_session_end(World, task[t].closing, CloseFailure), t, CloseFailure))
    /\ UNCHANGED <<breakerVars, configVars, calls>>

\* the cancelled reaper has ended: "await self._cleanup_task" raises CancelledError, passed over
CloseAllResumes(t) ==
    /\ task[t].pc = "await_reaper"
    /\ reaper.pc = "cancelled"
    /\ Install(close_all_after_cancel(World, t))
    /\ UNCHANGED <<breakerVars, configVars, calls>>

----------------------------------------------------------------------------
(* The idle reaper: cleanup_loop and _cleanup_idle_sessions *)

\* the second loop of _cleanup_idle_sessions up to the await inside the next close_session,
\* or, the list done, up to asyncio.sleep(cleanup_interval)
RECURSIVE cleanup_next(_)
cleanup_next(w) ==
    IF w.reaper.to_close = <<>>
    THEN [w EXCEPT !.reaper.pc = "sleeping", !.reaper.closing = None]
    ELSE LET sid == Head(w.reaper.to_close)
             w1  == [w EXCEPT !.reaper.to_close = Tail(@), !.reaper.closing = None]
         IN  IF sid \notin w.sessions
             THEN cleanup_next([w1 EXCEPT !.reaper.failures = @ + 1])  \* KeyError, logged
             ELSE LET r == close_session_begin(w1, w.sstate[sid].session)
                  IN  [r.w EXCEPT !.reaper.pc = "closing", !.reaper.closing = r.sid]

\* a variant without the two try/except: the error ends the task
cleanup_closed_dies_on_error(w, err) ==
    IF err = NoError
    THEN cleanup_next(close_session_end(w, w.reaper.closing, err))
    ELSE [close_session_end(w, w.reaper.closing, err) EXCEPT
             !.reaper.pc = "dead", !.reaper.closing = None, !.reaper.failures = @ + 1]

\* the close_session of the reaper returned or raised: log, go on with the list
cleanup_closed(w, err) ==
    LET w1 == close_session_end(w, w.reaper.closing, err)
    IN  cleanup_next([w1 EXCEPT !.reaper.failures = IF err = NoError THEN @ ELSE @ + 1])

\* cleanup_loop runs for the first time, or its asyncio.sleep is over: one more cycle
ReaperWake ==
    /\ reaper.pc \in {"start", "sleeping"}
    /\ Install(cleanup_next([World EXCEPT !.reaper.to_close = idle_sessions(World)]))
    /\ UNCHANGED <<breakerVars, configVars, calls>>

ReaperCloseOk ==
    /\ reaper.pc = "closing"
    /\ Install(cleanup_closed(World, NoError))
    /\ UNCHANGED <<breakerVars, configVars, calls>>

ReaperCloseFails ==
    /\ reaper.pc = "closing"
    /\ Install(cleanup_closed(World, CloseFailure))
    /\ UNCHANGED <<breakerVars, configVars, calls>>

\* CancelledError reaches the reaper at its await: it is no Exception, so only the finally
\* of a close_session in progress runs
ReaperUnwinds ==
    /\ reaper.pc = "cancelling"
    /\ Install([(IF reaper.closing = None
                 THEN World
                 ELSE close_session_cleanup(World, reaper.closing)) EXCEPT
                    !.reaper.pc       = "cancelled",
                    !.reaper.to_close = <<>>,
                    !.reaper.closing  = None])
    /\ UNCHANGED <<breakerVars, configVars, calls>>

Reaper ==
    \/ ReaperWake
    \/ ReaperCloseOk
    \/ ReaperCloseFails
    \/ ReaperUnwinds

----------------------------------------------------------------------------

Resume(t) ==
    \/ SessionOpened(t)
    \/ SessionOpenFails(t)
    \/ BeginTransactionOk(t)
    \/ BeginTransactionFails(t)
    \/ RunOk(t)
    \/ ConsumeOk(t)
    \/ CommitOk(t)
    \/ BodyFails(t)
    \/ AexitDone(t)
    \/ SleepDone(t)
    \/ CloseOk(t)
    \/ CloseFails(t)

----------------------------------------------------------------------------
(* Specifications *)

NoCall == [op |-> "none", key |-> "none", result |-> TRUE, at |-> 0, before |-> "closed"]

\* no function call made
NoLibCall == [fn |-> "none", args |-> <<>>, pc |-> "done", outcome |-> "none",
              value |-> <<>>, error |-> NoError, decoded |-> <<>>]

\* the database connection and the functions are not part of this run
LibUnused ==
    /\ db = Neo4jDatabaseConnection(0)
    /\ lib_call = NoLibCall

BreakerUnused ==
    /\ cb = DefaultCircuitBreaker
    /\ cb_hist = [k \in Keys |-> <<>>]
    /\ cb_last = NoCall
    /\ cb_calls = 0

ManagersConstructed ==
    /\ now = 0
    /\ sessions = {}
    /\ sstate = EmptyDict
    /\ retired = EmptyDict
    /\ next_sid = 1
    /\ sm_cb = DefaultCircuitBreaker
    /\ tx_cb = DefaultCircuitBreaker
    /\ transactions = EmptyDict
    /\ next_txid = 1
    /\ task = [t \in Tasks |-> IdleTask]
    /\ reaper = NewReaper
    /\ locks = [l \in LockNames |-> None]
    /\ calls = 0

\* the session manager as Neo4jQueryExecutor builds it
SessionManagerConfigs ==
    [max_sessions : 1..MaxSessions, session_timeout : {ExecutorSessionTimeout}]

\* Neo4jQueryExecutor.__init__: the managers as the executor builds them
Init ==
    /\ LibUnused
    /\ ManagersConstructed
    /\ BreakerUnused
    /\ sm_config \in SessionManagerConfigs
    /\ call_budget = MaxCalls
    /\ remote_errors = BasicRemoteErrors
    /\ collect_transaction_metrics \in BOOLEAN
    /\ retry_config = RetryConfig("EXPONENTIAL", MaxRetries,
                                  ExecutorInitialDelay, ExecutorMaxDelay)

Next ==
    \/ \E t \in Tasks : ExecuteQuery(t, NoRetryOnErrors)
    \/ \E t \in Tasks : ExecuteTransaction(t, NoRetryOnErrors)
    \/ \E t \in Tasks : Resume(t)

Spec == Init /\ [][Next]_vars

\* the two managers used directly by one caller, under any retry configuration
InitDirect ==
    /\ LibUnused
    /\ ManagersConstructed
    /\ BreakerUnused
    /\ sm_config \in SessionManagerConfigs
    /\ call_budget = DirectCalls
    /\ remote_errors = RemoteErrors
    /\ collect_transaction_metrics \in BOOLEAN
    /\ \E strategy \in {"EXPONENTIAL", "LINEAR", "CONSTANT"},
          initial_delay \in 1..MaxInitialDelay,
          max_delay \in {3, ExecutorMaxDelay} :
           retry_config = RetryConfig(strategy, RetryDepth, initial_delay, max_delay)

NextDirect ==
    \/ GetSession(1)
    \/ ExecuteInTransaction(1, QueryLists(MaxQueries))
    \/ CloseSession(1)
    \/ Resume(1)

SpecDirect == InitDirect /\ [][NextDirect]_vars

----------------------------------------------------------------------------
(* A breaker driven directly: any caller, any key, any order *)

InitBreaker ==
    /\ LibUnused
    /\ now = 0
    /\ \E th \in 1..MaxThreshold, rt \in 1..MaxResetTimeout, ht \in 0..MaxHalfOpenTimeout :
           cb = CircuitBreaker(th, rt, ht)
    /\ cb_hist = [k \in Keys |-> <<>>]
    /\ cb_last = NoCall
    /\ cb_calls = 0
    /\ ManagersConstructed
    /\ sm_config = [max_sessions |-> 1, session_timeout |-> ExecutorSessionTimeout]
    /\ call_budget = 0
    /\ remote_errors = {}
    /\ collect_transaction_metrics = FALSE
    /\ retry_config = RetryConfig("EXPONENTIAL", 0, ExecutorInitialDelay, ExecutorMaxDelay)

BreakerRecordFailure(k) ==
    /\ cb_calls < MaxBreakerCalls
    /\ cb' = record_failure(cb, k, now)
    /\ cb_hist' = [cb_hist EXCEPT ![k] = Append(@, now)]
    /\ cb_last' = [op |-> "record_failure", key |-> k, result |-> TRUE, at |-> now,
                   before |-> DictGet(cb.state, k, "closed")]
    /\ cb_calls' = cb_calls + 1
    /\ UNCHANGED <<now, configVars, managerVars>>

BreakerRecordSuccess(k) ==
    /\ cb_calls < MaxBreakerCalls
    /\ cb' = record_success(cb, k)
    /\ cb_hist' = [cb_hist EXCEPT ![k] = <<>>]
    /\ cb_last' = [op |-> "record_success", key |-> k, result |-> TRUE, at |-> now,
                   before |-> DictGet(cb.state, k, "closed")]
    /\ cb_calls' = cb_calls + 1
    /\ UNCHANGED <<now, configVars, managerVars>>

BreakerCanExecute(k) ==
    /\ cb_calls < MaxBreakerCalls
    /\ cb' = can_execute(cb, k, now).b
    /\ cb_last' = [op |-> "can_execute", key |-> k,
                   result |-> can_execute(cb, k, now).ok, at |-> now,
                   before |-> DictGet(cb.state, k, "closed")]
    /\ cb_calls' = cb_calls + 1
    /\ UNCHANGED <<now, cb_hist, configVars, managerVars>>

BreakerTick ==
    /\ Tick
    /\ UNCHANGED <<breakerVars, configVars, managerVars>>

NextBreaker ==
    \/ \E k \in Keys : BreakerRecordFailure(k)
    \/ \E k \in Keys : BreakerRecordSuccess(k)
    \/ \E k \in Keys : BreakerCanExecute(k)
    \/ BreakerTick

SpecBreaker == InitBreaker /\ [][NextBreaker]_vars

----------------------------------------------------------------------------
(* get_session called again and again while the driver fails to open sessions *)

InitGate ==
    /\ LibUnused
    /\ ManagersConstructed
    /\ BreakerUnused
    /\ sm_config \in SessionManagerConfigs
    /\ call_budget = GateCalls
    /\ remote_errors = {TransientFailure}
    /\ collect_transaction_metrics = FALSE
    /\ retry_config = RetryConfig("EXPONENTIAL", MaxRetries,
                                  ExecutorInitialDelay, ExecutorMaxDelay)

NextGate ==
    \/ GetSession(1)
    \/ SessionOpened(1)
    \/ SessionOpenFails(1)
    \/ Elapse(GateStep, GateHorizon)

SpecGate == InitGate /\ [][NextGate]_vars

----------------------------------------------------------------------------
(* The session manager used directly by one caller, next to its reaper *)

InitSessions ==
    /\ LibUnused
    /\ ManagersConstructed
    /\ BreakerUnused
    /\ sm_config = [max_sessions |-> MaxSessions, session_timeout |-> ReaperTimeout]
    /\ call_budget = SessionCalls
    /\ remote_errors = {TransientFailure}
    /\ collect_transaction_metrics = FALSE
    /\ retry_config = RetryConfig("EXPONENTIAL", MaxRetries,
                                  ExecutorInitialDelay, ExecutorMaxDelay)

SessionCalls1 ==
    \/ GetSession(1)
    \/ UpdateSessionMetrics(1)
    \/ CloseSession(1)
    \/ CloseAllSessions(1)

SessionResumes1 ==
    \/ SessionOpened(1)
    \/ SessionOpenFails(1)
    \/ CloseOk(1)
    \/ CloseFails(1)
    \/ CloseAllResumes(1)

NextSessions ==
    \/ SessionCalls1
    \/ SessionResumes1
    \/ Reaper
    \/ Elapse(1, ReaperHorizon)

SpecSessions == InitSessions /\ [][NextSessions]_vars

\* one caller running transactions on sessions of its own, next to the reaper
NextReaped ==
    \/ GetSession(1)
    \/ ExecuteInTransaction(1, SingleQuery)
    \/ CloseSession(1)
    \/ Resume(1)
    \/ ReaperWake
    \/ ReaperCloseOk
    \/ ReaperCloseFails
    \/ Elapse(1, ReaperHorizon)

SpecReaped == InitSessions /\ [][NextReaped]_vars

\* one coroutine calling execute_batch on an executor of its own
InitBatch ==
    /\ LibUnused
    /\ ManagersConstructed
    /\ BreakerUnused
    /\ sm_config = [max_sessions |-> MaxSessions, session_timeout |-> ExecutorSessionTimeout]
    /\ call_budget = BatchCalls
    /\ remote_errors = BasicRemoteErrors
    /\ collect_transaction_metrics = FALSE
    /\ retry_config = RetryConfig("EXPONENTIAL", MaxRetries,
                                  ExecutorInitialDelay, ExecutorMaxDelay)

NextBatch ==
    \/ ExecuteBatch(1)
    \/ Resume(1)

SpecBatch == InitBatch /\ [][NextBatch]_vars

----------------------------------------------------------------------------
(* update_session_metrics called from threads: a thread may be preempted between any two   *)
(* lines, and waits at "with self._metrics_lock" while another thread holds the lock       *)

\* a variant that enters the with block whoever holds the lock
lock_free_unchecked(w, name) == TRUE

\* threading.Lock.acquire goes through
lock_free(w, name) == w.locks[name] = None

\* update_session_metrics up to "with self._metrics_lock"
MetricsCall(t) ==
    /\ CanStart(t)
    /\ \E h \in Handles, value \in 1..MaxMetricValue :
           LET w1  == [World EXCEPT !.task[t] =
                          [IdleTask EXCEPT !.op           = "update_session_metrics",
                                           !.session      = h,
                                           !.metric_value = value]]
               sid == get_session_state(w1, h)
           IN  Install(IF sid = None
                       THEN finish(w1, t, "returned", <<>>, NoError)
                       ELSE [w1 EXCEPT !.task[t].pc = "metrics_lock", !.task[t].state = sid])
    /\ calls' = calls + 1
    /\ UNCHANGED <<breakerVars, configVars>>

\* the lock is taken: "current = getattr(state, metric)"
MetricsLockTaken(t) ==
    /\ task[t].pc = "metrics_lock"
    /\ lock_free(World, "session_manager._metrics_lock")
    /\ Install([World EXCEPT !.locks["session_manager._metrics_lock"] = t,
                             !.task[t].pc      = "metrics_locked",
                             !.task[t].current = sstate[task[t].state].queries_executed])
    /\ UNCHANGED <<breakerVars, configVars, calls>>

\* "setattr(state, metric, current + value)", the two stamps, and the lock is given back
MetricsWritten(t) ==
    /\ task[t].pc = "metrics_locked"
    /\ LET sid == task[t].state
       IN  Install(finish([World EXCEPT
                              !.sstate[sid].queries_executed = task[t].current
                                                               + task[t].metric_value,
                              !.sstate[sid].last_used_at     = now,
                              !.sstate[sid].status           = "ACTIVE",
                              !.locks["session_manager._metrics_lock"] = None],
                          t, "returned", <<>>, NoError))
    /\ UNCHANGED <<breakerVars, configVars, calls>>

InitMetrics ==
    /\ LibUnused
    /\ ManagersConstructed
    /\ BreakerUnused
    /\ sm_config = [max_sessions |-> MaxSessions, session_timeout |-> ExecutorSessionTimeout]
    /\ call_budget = MetricsCalls
    /\ remote_errors = {}
    /\ collect_transaction_metrics = FALSE
    /\ retry_config = RetryConfig("EXPONENTIAL", MaxRetries,
                                  ExecutorInitialDelay, ExecutorMaxDelay)

NextMetrics ==
    \/ \E t \in Tasks : GetSession(t)
    \/ \E t \in Tasks : SessionOpened(t)
    \/ \E t \in Tasks : MetricsCall(t)
    \/ \E t \in Tasks : MetricsLockTaken(t)
    \/ \E t \in Tasks : MetricsWritten(t)
    \/ Elapse(1, MetricsHorizon)

SpecMetrics == InitMetrics /\ [][NextMetrics]_vars

----------------------------------------------------------------------------
(* Neo4jDatabaseConnection.execute, called by one coroutine *)

\* the managers and the executor constructed and never called
ExecutorUnused ==
    /\ ManagersConstructed
    /\ BreakerUnused
    /\ sm_config = [max_sessions |-> 1, session_timeout |-> ExecutorSessionTimeout]
    /\ call_budget = 0
    /\ remote_errors = {}
    /\ collect_transaction_metrics = FALSE
    /\ retry_config = RetryConfig("EXPONENTIAL", 0, ExecutorInitialDelay, ExecutorMaxDelay)

DbQueries == {1, 2}

DbExecute ==
    /\ db.call.pc \in {"idle", "done"}
    /\ db.calls < DbCalls
    /\ \E query \in DbQueries :
           LET c == [db EXCEPT !.calls = @ + 1,
                               !.call  = [Neo4jDatabaseConnection(0).call EXCEPT
                                             !.query      = query,
                                             !.began_with = db._driver]]
           IN  db' = _execute_query(log_query_start(c, query))
    /\ UNCHANGED <<now, breakerVars, managerConfig, managerVars, lib_call>>

\* driver.execute_query returned: its records are those of this attempt on this handle
DbQueryOk ==
    /\ db.call.pc = "await_query"
    /\ db' = [db EXCEPT !.call.pc      = "done",
                        !.call.outcome = "returned",
                        !.call.value   = <<[query   |-> db.call.query,
                                            driver  |-> db.call.used,
                                            attempt |-> db.call.attempts]>>]
    /\ UNCHANGED <<now, breakerVars, managerConfig, managerVars, lib_call>>

\* driver.execute_query raised: "except RETRYABLE_EXCEPTIONS as e", or out of execute
DbQueryFails ==
    /\ db.call.pc = "await_query"
    /\ \E e \in DbErrors :
           db' = IF \E ty \in RETRYABLE_EXCEPTIONS : ty = e.type \/ ty \in Bases(e.type)
                 THEN [db EXCEPT !.call.pc = "await_sleep", !.call.e = e, !.call.failed = @ + 1]
                 ELSE [db EXCEPT !.call.pc = "done", !.call.outcome = "raised", !.call.error = e]
    /\ UNCHANGED <<now, breakerVars, managerConfig, managerVars, lib_call>>

DbSleepOver ==
    /\ db.call.pc = "await_sleep"
    /\ db' = after_retry_sleep(db)
    /\ UNCHANGED <<now, breakerVars, managerConfig, managerVars, lib_call>>

InitDb ==
    /\ ExecutorUnused
    /\ \E max_retry_attempts \in 0..DbMaxAttempts : db = Neo4jDatabaseConnection(max_retry_attempts)
    /\ lib_call = NoLibCall

NextDb ==
    \/ DbExecute
    \/ DbQueryOk
    \/ DbQueryFails
    \/ DbSleepOver

SpecDb == InitDb /\ [][NextDb]_vars

----------------------------------------------------------------------------
(* QueryBatch.as_query and Neo4jResult.obtain_query_statistics, called once *)

LibCall(fn, args) ==
    [NoLibCall EXCEPT !.fn = fn, !.args = args, !.pc = "ready"]

InitLib ==
    /\ ExecutorUnused
    /\ db = Neo4jDatabaseConnection(0)
    /\ \/ \E statement \in {"MERGE a", "MERGE b"}, n \in 0..MaxParameterSets,
             is_apoc, apoc_iterate, parallel \in BOOLEAN,
             chunk_size \in {1, DefaultChunkSize}, retries \in {0, 3} :
              \E sets \in [1..n -> {"p", "q"}] :
                  lib_call = LibCall("as_query",
                                     [self                       |-> QueryBatch(statement, sets, is_apoc),
                                      apoc_iterate               |-> apoc_iterate,
                                      chunk_size                 |-> chunk_size,
                                      execute_chunks_in_parallel |-> parallel,
                                      retries_per_chunk          |-> retries])
       \/ \E is_apoc \in BOOLEAN, present \in SUBSET APOC_BATCH_QUERY_RESPONSE_FIELDS,
             rows \in 0..1 :
              \E row \in [present -> {"sent", "bad"}] :
                  lib_call = LibCall("obtain_query_statistics",
                                     [query   |-> [query_statement |-> "COMMIT_QUERY",
                                                   is_apoc         |-> is_apoc],
                                      records |-> [i \in 1..rows |-> row],
                                      summary |-> [query_type             |-> "w",
                                                   result_available_after |-> 30,
                                                   result_consumed_after  |-> 70,
                                                   counters               |-> "counters"]])

ApplyAsQuery ==
    /\ lib_call.pc = "ready"
    /\ lib_call.fn = "as_query"
    /\ lib_call' = [lib_call EXCEPT
                       !.pc      = "done",
                       !.outcome = "returned",
                       !.value   = <<as_query(lib_call.args.self,
                                              lib_call.args.apoc_iterate,
                                              lib_call.args.chunk_size,
                                              lib_call.args.execute_chunks_in_parallel,
                                              lib_call.args.retries_per_chunk)>>]
    /\ UNCHANGED <<now, breakerVars, managerConfig, managerVars, db>>

ApplyObtainQueryStatistics ==
    /\ lib_call.pc = "ready"
    /\ lib_call.fn = "obtain_query_statistics"
    /\ LET r == obtain_query_statistics(lib_call.args.query, lib_call.args.records,
                                        lib_call.args.summary)
       IN  lib_call' = [lib_call EXCEPT
                           !.pc      = "done",
                           !.outcome = IF r.ok THEN "returned" ELSE "raised",
                           !.value   = IF r.ok THEN <<r.value>> ELSE <<>>,
                           !.error   = r.error,
                           !.decoded = r.decoded]
    /\ UNCHANGED <<now, breakerVars, managerConfig, managerVars, db>>

NextLib ==
    \/ ApplyAsQuery
    \/ ApplyObtainQueryStatistics

SpecLib == InitLib /\ [][NextLib]_vars

\* every pending await is resumed in the end: the event loop runs every ready coroutine,
\* asyncio.sleep ends, and the driver answers every call
FairSessions ==
    SpecSessions /\ WF_vars(SessionResumes1) /\ WF_vars(Reaper)

----------------------------------------------------------------------------
(* Properties *)

Done(t) == task[t].pc = "done"

ExecutorOps == {"execute_query", "execute_transaction"}

Tracked(session) == get_session_state(World, session) # None

IsPrefix(a, b) == Len(a) <= Len(b) /\ a = SubSeq(b, 1, Len(a))

\* the remote calls of one attempt, in the order the caller's statements ask for
ExpectedTrace(queries) ==
    [j \in 1..(2 * Len(queries)) |->
        [op    |-> IF j % 2 = 1 THEN "run" ELSE "consume",
         query |-> queries[(j + 1) \div 2]]]

\* the results of one attempt: one per statement, in input order
ResultsOf(queries, attempt_no) ==
    [i \in 1..Len(queries) |-> [query |-> queries[i], attempt |-> attempt_no]]

\* C1: the number of tracked sessions never exceeds max_sessions.
C1_SessionCapEnforced ==
    Cardinality(sessions) <= sm_config.max_sessions

\* C2: when execute_query or execute_transaction has returned or raised, the session it
\* acquired has been passed to close_session and is no longer in the session table.
C2_SessionClosedOnEveryExit ==
    \A t \in Tasks :
        (Done(t) /\ task[t].op \in ExecutorOps /\ task[t].session # None) =>
            /\ task[t].closed_with = task[t].session
            /\ ~Tracked(task[t].session)

\* one call has committed and another has used up its retries
C2_Witness ==
    \E t, u \in Tasks :
        /\ Done(t) /\ task[t].op \in ExecutorOps /\ task[t].session # None
        /\ task[t].outcome = "returned"
        /\ Done(u) /\ task[u].op \in ExecutorOps /\ task[u].session # None
        /\ task[u].outcome = "raised"
        /\ task[u].failed = retry_config.max_retries + 1
        /\ task[u].error = TransientFailure

\* C3: a call of execute_in_transaction opens at most max_retries + 1 remote transactions,
\* sleeps at most max_retries times, and has raised once max_retries + 1 attempts have failed.
C3_AttemptsBounded ==
    \A t \in Tasks :
        /\ task[t].attempts <= retry_config.max_retries + 1
        /\ task[t].retries <= retry_config.max_retries
        /\ Len(task[t].slept) <= retry_config.max_retries
        /\ (task[t].failed = retry_config.max_retries + 1 => task[t].outcome = "raised")
        /\ task[t].failed <= retry_config.max_retries + 1

\* the last attempt the budget allows has been made, and the call is over
C3_Witness ==
    \E t \in Tasks :
        /\ Done(t)
        /\ task[t].attempts = retry_config.max_retries + 1
        /\ task[t].failed = retry_config.max_retries + 1

\* C4: when the first k attempts fail with a retryable error and attempt k + 1 commits,
\* the call returns the results of attempt k + 1 and the session's transactions_rolled_back
\* reads k and its transactions_committed reads 1.
C4_CountersAfterRetries ==
    \A t \in Tasks :
        (/\ Done(t)
         /\ task[t].op = "execute_in_transaction"
         /\ task[t].outcome = "returned"
         /\ Tracked(task[t].session)
         /\ Cardinality({x \in DOMAIN transactions :
                transactions[x].session_id = get_session_state(World, task[t].session)}) = 1)
        => LET sid == get_session_state(World, task[t].session)
           IN  /\ task[t].value = ResultsOf(task[t].queries, task[t].failed + 1)
               /\ sstate[sid].transactions_rolled_back = task[t].failed
               /\ sstate[sid].transactions_committed = 1

\* C5: when every attempt has failed with a retryable error, the call raises RetriesExhausted.
C5_RetriesExhaustedRaised ==
    \A t \in Tasks :
        (/\ Done(t)
         /\ task[t].txid # None
         /\ task[t].failed = retry_config.max_retries + 1
         /\ _should_retry(retry_config, task[t].last_failure))
        => task[t].error = RetriesExhausted

\* C6: once an attempt has failed with an error that is not retryable, the call is over:
\* it has raised that same error, has recorded one breaker failure for its key, has slept
\* only after the failures before that one and has started no attempt after it.
C6_NonRetryablePropagates ==
    \A t \in Tasks :
        (task[t].failed >= 1 /\ ~_should_retry(retry_config, task[t].last_failure)) =>
            /\ task[t].pc \in {"done", "await_close"}
            /\ task[t].outcome = "raised"
            /\ task[t].error = task[t].last_failure
            /\ task[t].recorded = 1
            /\ Len(DictGet(tx_cb.failures, task[t].txid, <<>>)) = 1
            /\ Len(task[t].slept) = task[t].failed - 1
            /\ task[t].attempts = task[t].failed

\* a non-retryable error after a retried one
C6_Witness ==
    \E t \in Tasks :
        /\ Done(t)
        /\ task[t].failed >= 2
        /\ task[t].last_failure = SyntaxFailure
        /\ task[t].error = SyntaxFailure

\* C7: a call of execute_in_transaction on a handle the session manager does not track is
\* over in its first step: it has raised UnknownSession, has opened no remote transaction,
\* and the transaction table and the circuit breaker are as they were.
C7_UnknownSessionFailsAtOnce ==
    [][\A t \in Tasks :
          (/\ calls' = calls + 1
           /\ task[t].pc \in {"idle", "done"}
           /\ task'[t].op = "execute_in_transaction"
           /\ \A u \in Tasks \ {t} : task'[u] = task[u]
           /\ ~Tracked(task'[t].session))
          => /\ task'[t].pc = "done"
             /\ task'[t].outcome = "raised"
             /\ task'[t].error = UnknownSession
             /\ task'[t].attempts = 0
             /\ task'[t].slept = <<>>
             /\ transactions' = transactions
             /\ next_txid' = next_txid
             /\ tx_cb' = tx_cb]_vars

\* the call was made on an unknown handle while another session was tracked
C7_Witness ==
    \E t \in Tasks :
        /\ Done(t)
        /\ task[t].op = "execute_in_transaction"
        /\ task[t].error = UnknownSession
        /\ sessions # {}

\* C8: in every attempt the statements are run in input order, each consumed before the
\* next is run; the results collected are those of the current attempt, in input order;
\* and the list returned holds one result per statement, all of the attempt that committed.
C8_StatementOrder ==
    \A t \in Tasks :
        /\ IsPrefix(task[t].trace, ExpectedTrace(task[t].queries))
        /\ task[t].pc \in {"await_run", "await_consume", "await_commit"} =>
               IsPrefix(task[t].results, ResultsOf(task[t].queries, task[t].attempts))
        /\ (Done(t) /\ task[t].outcome = "returned"
                /\ task[t].op \in {"execute_in_transaction", "execute_transaction"})
           => task[t].value = ResultsOf(task[t].queries, task[t].attempts)

\* two statements, committed by an attempt that was not the first
C8_Witness ==
    \E t \in Tasks :
        /\ Done(t)
        /\ task[t].outcome = "returned"
        /\ Len(task[t].queries) = 2
        /\ task[t].failed >= 1
        /\ Len(task[t].value) = 2

RECURSIVE Doubled(_)
Doubled(n) == IF n = 0 THEN 1 ELSE 2 * Doubled(n - 1)

\* the delay of retry index n as the retry policy defines it
PolicyDelay(cfg, n) ==
    LET unclamped == CASE cfg.strategy = "EXPONENTIAL" -> cfg.initial_delay * Doubled(n)
                       [] cfg.strategy = "LINEAR"      -> cfg.initial_delay * (n + 1)
                       [] cfg.strategy = "CONSTANT"    -> cfg.initial_delay
    IN  IF unclamped > cfg.max_delay THEN cfg.max_delay ELSE unclamped

\* delay(0..5) for EXPONENTIAL, initial_delay = 1, max_delay = 30
StatedDelays == <<1, 2, 4, 8, 16, 30>>

\* C9: the call sleeps delay(n) after its n-th failed attempt (n from 0), where delay(n) is
\* the policy's delay clamped to max_delay; for EXPONENTIAL, 1, 30 these are 1, 2, 4, 8, 16, 30.
C9_BackoffDelays ==
    \A t \in Tasks :
        /\ \A n \in 1..Len(task[t].slept) :
              /\ task[t].slept[n] = PolicyDelay(retry_config, n - 1)
              /\ task[t].slept[n] <= retry_config.max_delay
              /\ (/\ retry_config.strategy = "EXPONENTIAL"
                  /\ retry_config.initial_delay = 1
                  /\ retry_config.max_delay = 30
                  /\ n <= Len(StatedDelays))
                 => task[t].slept[n] = StatedDelays[n]
        /\ task[t].pc = "await_sleep" =>
              /\ Len(task[t].slept) = task[t].retries + 1
              /\ task[t].wake = now + task[t].slept[Len(task[t].slept)]

\* the sixth sleep of a call under EXPONENTIAL, 1, 30
C9_Witness ==
    \E t \in Tasks :
        /\ retry_config.strategy = "EXPONENTIAL"
        /\ retry_config.initial_delay = 1
        /\ retry_config.max_delay = 30
        /\ task[t].pc = "await_sleep"
        /\ Len(task[t].slept) = 6

\* the last failure_threshold record_failure calls for key k since its last record_success
\* all lie less than reset_timeout before the latest one (so record_failure has kept them),
\* and no more than half_open_timeout has elapsed since that one
RecentlyTripped(k) ==
    LET h == cb_hist[k]
    IN  /\ Len(h) >= cb.failure_threshold
        /\ \A i \in (Len(h) - cb.failure_threshold + 1)..Len(h) :
               h[Len(h)] - h[i] < cb.reset_timeout
        /\ now - h[Len(h)] <= cb.half_open_timeout

\* C10: after failure_threshold failures within reset_timeout and no success in between, the
\* key is OPEN and can_execute returns false while no more than half_open_timeout has
\* elapsed since the latest failure.
C10_OpenAfterThreshold ==
    \A k \in Keys :
        RecentlyTripped(k) =>
            /\ DictGet(cb.state, k, "closed") = "open"
            /\ ~can_execute(cb, k, now).ok
            /\ (cb_last.op = "can_execute" /\ cb_last.key = k) => ~cb_last.result

\* a key tripped by two failures at different times, then asked
C10_Witness ==
    \E k \in Keys :
        /\ RecentlyTripped(k)
        /\ cb.failure_threshold = 2
        /\ cb_hist[k][1] < cb_hist[k][2]
        /\ now > cb_hist[k][2]
        /\ cb_last.op = "can_execute"
        /\ cb_last.key = k
        /\ ~cb_last.result

\* C11: once a key is OPEN and half_open_timeout has elapsed since its last failure,
\* can_execute returns true once per open period: a can_execute call made while the key is
\* HALF_OPEN (the trial allowed, its outcome not yet recorded) does not return true.
C11_OneTrialPerOpenPeriod ==
    (cb_last.op = "can_execute" /\ cb_last.before = "half-open") => ~cb_last.result

\* C12: after record_success(key), whatever the key's state was, its failure list is empty
\* and its state CLOSED, so can_execute(key) returns true; and a key is OPEN only after
\* failure_threshold failures in a row recorded since its last record_success, none of
\* them reset_timeout or more before the last of them.
C12_SuccessResets ==
    \A k \in Keys :
        /\ (cb_last.op = "record_success" /\ cb_last.key = k) =>
              /\ DictGet(cb.failures, k, <<>>) = <<>>
              /\ DictGet(cb.state, k, "closed") = "closed"
              /\ can_execute(cb, k, now).ok
        /\ DictGet(cb.state, k, "closed") = "open" =>
              \E j \in cb.failure_threshold..Len(cb_hist[k]) :
                  \A i \in (j - cb.failure_threshold + 1)..j :
                      cb_hist[k][j] - cb_hist[k][i] < cb.reset_timeout
        /\ DictGet(cb.failures, k, <<>>) =
              SubSeq(cb_hist[k], Len(cb_hist[k]) - Len(DictGet(cb.failures, k, <<>>)) + 1,
                     Len(cb_hist[k]))

\* record_success has just been called on a key that was OPEN, with threshold above 1
C12_Witness ==
    /\ cb_last.op = "record_success"
    /\ cb_last.before = "open"
    /\ cb.failure_threshold = 2
    /\ DictGet(cb.state, cb_last.key, "closed") = "closed"

\* the session manager's breaker holds session_creation OPEN and no more than
\* half_open_timeout has elapsed since the key's last failure
SessionCreationHeldOpen ==
    LET fs == DictGet(sm_cb.failures, "session_creation", <<>>)
    IN  /\ DictGet(sm_cb.state, "session_creation", "closed") = "open"
        /\ fs # <<>>
        /\ now - fs[Len(fs)] <= sm_cb.half_open_timeout

\* C13: a get_session call made while session_creation is OPEN and half_open_timeout has
\* not elapsed since its last failure is over at once: it has raised the breaker's error
\* without awaiting the driver, and the session table, the ids handed out and the breaker
\* are as they were.
C13_OpenBreakerRejectsGetSession ==
    [][\A t \in Tasks :
          (/\ calls' = calls + 1
           /\ task'[t] # task[t]
           /\ task'[t].op = "get_session"
           /\ SessionCreationHeldOpen)
          => /\ task'[t].pc = "done"
             /\ task'[t].outcome = "raised"
             /\ task'[t].error = SessionBlocked
             /\ sessions' = sessions
             /\ sstate' = sstate
             /\ next_sid' = next_sid
             /\ sm_cb' = sm_cb]_vars

\* a call rejected after the threshold of failed session creations
C13_Witness ==
    \E t \in Tasks :
        /\ task[t].pc = "done"
        /\ task[t].op = "get_session"
        /\ task[t].error = SessionBlocked
        /\ SessionCreationHeldOpen
        /\ Len(sm_cb.failures["session_creation"]) = DefaultFailureThreshold

\* C14: close_session on a handle that is not tracked (closed before, or foreign) is over
\* at once: it has returned without raising and without awaiting the underlying close, and
\* the session table and every SessionState are as they were.
C14_CloseUnknownIsNoOp ==
    [][\A t \in Tasks :
          (/\ calls' = calls + 1
           /\ task'[t] # task[t]
           /\ task'[t].op = "close_session"
           /\ ~Tracked(task'[t].session))
          => /\ task'[t].pc = "done"
             /\ task'[t].outcome = "returned"
             /\ task'[t].error = NoError
             /\ sessions' = sessions
             /\ sstate' = sstate
             /\ retired' = retired]_vars

\* a second close of a handle closed before, while another session is tracked
C14_Witness ==
    \E t \in Tasks :
        /\ Done(t)
        /\ task[t].op = "close_session"
        /\ task[t].outcome = "returned"
        /\ task[t].closed_with = None
        /\ task[t].session \in DOMAIN retired
        /\ sessions # {}

\* C15: close_session on a tracked handle marks the session CLOSING before it awaits the
\* underlying close; when the close returns the session is CLOSED and close_session returns,
\* when it raises the session is ERROR with the error string appended to its errors and
\* close_session raises that error; either way the entry is out of the session table.
C15_CloseTrackedSession ==
    [][\A t \in Tasks :
          /\ (/\ task'[t].op = "close_session"
              /\ task[t].pc \in {"idle", "done"}
              /\ task'[t].pc = "await_close")
             => /\ task'[t].closing \in sessions'
                /\ sstate'[task'[t].closing].session = task'[t].session
                /\ sstate'[task'[t].closing].status = "CLOSING"
          /\ (/\ task[t].op = "close_session"
              /\ task[t].pc = "await_close"
              /\ task'[t].pc = "done")
             => LET sid   == task[t].closing
                    final == IF sid \in DOMAIN sstate'
                             THEN [status |-> sstate'[sid].status, errors |-> sstate'[sid].errors]
                             ELSE retired'[sid]
                IN  /\ sid \notin sessions'
                    /\ \/ /\ task'[t].outcome = "returned"
                          /\ final.status = "CLOSED"
                          /\ final.errors = sstate[sid].errors
                       \/ /\ task'[t].outcome = "raised"
                          /\ task'[t].error = CloseFailure
                          /\ final.status = "ERROR"
                          /\ final.errors = Append(sstate[sid].errors, CloseFailure.text)]_vars

\* a close that failed: raised to the caller, the session left in ERROR and out of the table
C15_Witness ==
    \E t \in Tasks :
        /\ Done(t)
        /\ task[t].op = "close_session"
        /\ task[t].outcome = "raised"
        /\ task[t].error = CloseFailure
        /\ task[t].closed_with \in DOMAIN retired
        /\ retired[task[t].closed_with].status = "ERROR"
        /\ ~Tracked(task[t].closed_with)

\* C16: close_all_sessions closes sessions only once the reaper is cancelled; when it is over
\* it has returned, never raised, it has called close_session on every session of the table
\* as it was then, in order, whatever failed on the way, and none of them is tracked.
C16_CloseAllSessions ==
    \A t \in Tasks :
        /\ (task[t].op = "close_all_sessions" /\ task[t].pc = "await_close") =>
              reaper.pc = "cancelled"
        /\ (task[t].op = "close_all_sessions" /\ Done(t)) =>
              /\ task[t].outcome = "returned"
              /\ reaper.pc = "cancelled"
              /\ task[t].close_calls = task[t].targets
              /\ \A i \in 1..Len(task[t].targets) : ~Tracked(task[t].targets[i])

\* two sessions were tracked and a close failed on the way
C16_Witness ==
    \E t \in Tasks :
        /\ Done(t)
        /\ task[t].op = "close_all_sessions"
        /\ Len(task[t].targets) >= 2
        /\ task[t].close_failures >= 1
        /\ sessions = {}

\* session sid is tracked, ACTIVE or IDLE, and last used more than session_timeout ago
Expired(sid) ==
    /\ sid \in sessions
    /\ IsIdle(sstate[sid], now, sm_config.session_timeout)

ReaperRuns == reaper.pc \notin {"cancelling", "cancelled"}

RECURSIVE ItemsSent(_)
ItemsSent(chunks) ==
    IF chunks = <<>> THEN <<>> ELSE chunks[1].items \o ItemsSent(Tail(chunks))

\* ceil(n / b)
CeilDiv(n, b) == (n + b - 1) \div b

\* C18: execute_batch on n items with batch size b (the default chunk size when none is
\* given) never makes more than ceil(n/b) execute_query calls, each with 1..b items, and the
\* items sent so far are a prefix of the input; once it has returned it has made exactly
\* ceil(n/b) calls (none for n = 0), the chunks concatenated are the input, and the list
\* returned holds the result of chunk k at position k.
C18_BatchChunks ==
    \A t \in Tasks :
        task[t].op = "execute_batch" =>
            LET tk == task[t]
                n  == Len(tk.batch)
                b  == tk.batch_size
            IN  /\ Len(tk.chunks) <= CeilDiv(n, b)
                /\ \A k \in 1..Len(tk.chunks) : Len(tk.chunks[k].items) \in 1..b
                /\ IsPrefix(ItemsSent(tk.chunks), tk.batch)
                /\ (Done(t) /\ tk.outcome = "returned") =>
                      /\ Len(tk.chunks) = CeilDiv(n, b)
                      /\ ItemsSent(tk.chunks) = tk.batch
                      /\ Len(tk.value) = Len(tk.chunks)
                      /\ \A k \in 1..Len(tk.chunks) :
                             tk.value[k].query.parameters = tk.chunks[k].items

\* four items in chunks of three: a full chunk and a shorter one
C18_Witness ==
    \E t \in Tasks :
        /\ Done(t)
        /\ task[t].op = "execute_batch"
        /\ task[t].outcome = "returned"
        /\ Len(task[t].batch) = 4
        /\ task[t].batch_size = 3
        /\ Len(task[t].value) = 2

\* C19: a chunk whose execute_query call raised is the last chunk execute_batch ever sends:
\* the call is over and has raised that chunk's error, and every chunk before it returned
\* and its transaction is, and stays, COMMITTED.
C19_BatchStopsAtFailure ==
    \A t \in Tasks :
        task[t].op = "execute_batch" =>
            \A k \in 1..Len(task[t].chunks) :
                task[t].chunks[k].outcome = "raised" =>
                    /\ k = Len(task[t].chunks)
                    /\ Done(t)
                    /\ task[t].outcome = "raised"
                    /\ task[t].error = task[t].chunks[k].error
                    /\ \A j \in 1..(k - 1) :
                           /\ task[t].chunks[j].outcome = "returned"
                           /\ task[t].chunks[j].txid \in DOMAIN transactions
                           /\ transactions[task[t].chunks[j].txid].status = "COMMITTED"

\* the second chunk failed in its transaction after the first was committed, items unsent
C19_Witness ==
    \E t \in Tasks :
        /\ Done(t)
        /\ task[t].op = "execute_batch"
        /\ task[t].outcome = "raised"
        /\ task[t].error = SyntaxFailure
        /\ Len(task[t].chunks) = 2
        /\ Len(task[t].batch) > Len(ItemsSent(task[t].chunks))
        /\ task[t].chunks[2].txid \in DOMAIN transactions
        /\ transactions[task[t].chunks[1].txid].status = "COMMITTED"
        /\ transactions[task[t].chunks[2].txid].status = "FAILED"

\* the status close_session left on the session it was given
ClosedStatus(session) ==
    IF session \in DOMAIN retired THEN retired[session].status
    ELSE IF session \in DOMAIN sstate THEN sstate[session].status
    ELSE "none"

\* C20: whenever a chunk of execute_batch has been sent, every chunk sent before it has
\* returned, its transaction is COMMITTED and its session is out of the session table with
\* its close_session call over (CLOSED, or ERROR when session.close() raised); chunks hold
\* sessions and transactions opened in the order of the chunks, so the only session tracked
\* and the only transaction of the call not COMMITTED are those of the last chunk sent.
C20_ChunksOneAtATime ==
    \A t \in Tasks :
        task[t].op = "execute_batch" =>
            LET chunks == task[t].chunks
            IN  /\ \A k \in 1..(Len(chunks) - 1) :
                       /\ chunks[k].outcome = "returned"
                       /\ chunks[k].txid \in DOMAIN transactions
                       /\ transactions[chunks[k].txid].status = "COMMITTED"
                       /\ ~Tracked(chunks[k].session)
                       /\ ClosedStatus(chunks[k].session) \in {"CLOSED", "ERROR"}
                       /\ chunks[k + 1].session # None => chunks[k].session < chunks[k + 1].session
                       /\ chunks[k + 1].txid # None => chunks[k].txid < chunks[k + 1].txid
                /\ \A sid \in sessions : sstate[sid].session = task[t].session
                /\ \A txid \in DOMAIN transactions :
                       (/\ chunks # <<>>
                        /\ chunks[1].txid # None
                        /\ txid >= chunks[1].txid
                        /\ transactions[txid].status # "COMMITTED") =>
                           /\ txid = task[t].txid
                           /\ \A k \in 1..(Len(chunks) - 1) : chunks[k].txid < txid

\* the third chunk is in its transaction, in a session of its own
C20_Witness ==
    \E t \in Tasks :
        /\ task[t].op = "execute_batch"
        /\ task[t].pc = "await_run"
        /\ Len(task[t].chunks) = 3
        /\ Tracked(task[t].session)
        /\ transactions[task[t].txid].status = "STARTED"
        /\ task[t].session > 2

\* C30: right after record_success or record_failure on a key that was half-open, the key is
\* no longer half-open: closed after the success, open after the failure.
C30_TrialResolvesHalfOpen ==
    (cb_last.op \in {"record_success", "record_failure"} /\ cb_last.before = "half-open") =>
        DictGet(cb.state, cb_last.key, "closed") =
            (IF cb_last.op = "record_success" THEN "closed" ELSE "open")

\* C25: the execute_in_transaction call made by an executor operation has returned exactly
\* when its TransactionState is COMMITTED; from the commit on the TransactionState never changes, the call opens no
\* further transaction, and the breaker holds the success recorded for it (key closed, no
\* failures), so a call commits at most once.
C25_ReturnsIffCommittedOnce ==
    /\ [](\A t \in Tasks :
            (task[t].op \in ExecutorOps /\ task[t].txid \in DOMAIN transactions) =>
                /\ task[t].outcome = "returned"
                       <=> transactions[task[t].txid].status = "COMMITTED"
                /\ transactions[task[t].txid].status = "COMMITTED" =>
                       /\ DictGet(tx_cb.state, task[t].txid, "none") = "closed"
                       /\ task[t].txid \notin DOMAIN tx_cb.failures
                       /\ task[t].attempts >= 1)
    /\ [][/\ \A txid \in DOMAIN transactions :
                transactions[txid].status = "COMMITTED" =>
                    /\ txid \in DOMAIN transactions'
                    /\ transactions'[txid] = transactions[txid]
          /\ \A t \in Tasks :
                (/\ task[t].txid \in DOMAIN transactions
                 /\ transactions[task[t].txid].status = "COMMITTED"
                 /\ task'[t].txid = task[t].txid) => task'[t].attempts = task[t].attempts]_vars

\* a call that committed on its second attempt, and a later call about to commit next to it
C25_Witness ==
    \E t, u \in Tasks :
        /\ Done(t)
        /\ task[t].op \in ExecutorOps
        /\ task[t].outcome = "returned"
        /\ task[t].attempts = 2
        /\ transactions[task[t].txid].status = "COMMITTED"
        /\ u # t
        /\ task[u].pc = "await_commit"
        /\ task[u].txid > task[t].txid

\* C26: the retry_count of a call's TransactionState never exceeds max_retries nor the
\* retries made so far, and when the call is over after k retries, returned or raised,
\* it reads k.
C26_RetryCountCountsRetries ==
    \A t \in Tasks :
        (task[t].op = "execute_in_transaction" /\ task[t].txid \in DOMAIN transactions) =>
            /\ transactions[task[t].txid].retry_count <= retry_config.max_retries
            /\ transactions[task[t].txid].retry_count <= Len(task[t].slept)
            /\ Done(t) => transactions[task[t].txid].retry_count = Len(task[t].slept)

\* C29: once execute_query or execute_transaction is over, the transaction table holds no
\* entry for the transaction the call created.
C29_TransactionCleared ==
    \A t \in Tasks :
        (Done(t) /\ task[t].op \in ExecutorOps /\ task[t].txid # None) =>
            task[t].txid \notin DOMAIN transactions

\* the place of a status on the path CREATED, ACTIVE, IDLE, CLOSING, CLOSED
StatusRank(status) ==
    CASE status = "CREATED" -> 1
      [] status = "ACTIVE"  -> 2
      [] status = "IDLE"    -> 3
      [] status = "CLOSING" -> 4
      [] status = "CLOSED"  -> 5
      [] OTHER              -> 0

\* C27: a session's status only moves forward on CREATED, ACTIVE, IDLE, CLOSING, CLOSED, or
\* to ERROR; once CLOSED or ERROR it stays as it is; and no session of the session table is
\* CLOSED or ERROR.
C27_SessionStatusPath ==
    /\ [](\A sid \in sessions : sstate[sid].status \notin {"CLOSED", "ERROR"})
    /\ [][\A sid \in DOMAIN sstate :
             LET before == sstate[sid].status
                 after  == ClosedStatus(sid)'
             IN  /\ before \in {"CLOSED", "ERROR"} => after = before
                 /\ after # before =>
                        \/ after = "ERROR"
                        \/ StatusRank(after) > StatusRank(before)]_vars

\* C28: no session is left half-closed: a session that is CLOSING is still held by a
\* close_session call in progress, which will end it CLOSED or ERROR; this holds whether or
\* not the reaper has been cancelled.
C28_CancelLeavesNoHalfClosed ==
    /\ \A sid \in DOMAIN retired : retired[sid].status # "CLOSING"
    /\ \A sid \in DOMAIN sstate :
           sstate[sid].status = "CLOSING" =>
               \/ reaper.closing = sid /\ reaper.pc \in {"closing", "cancelling"}
               \/ \E t \in Tasks : task[t].closing = sid /\ task[t].pc = "await_close"

\* C21: the connection has no driver handle until its first use; the handle only changes when
\* there was none or after an attempt failed with a retryable exception, and then to one the
\* factory has just made; a call that has returned after f failed attempts ran its last
\* attempt on the handle the connection holds, returns the records of that attempt, and,
\* counting the handle it began with, has used f + 1 handles: it acquired the driver f times,
\* and once more when the connection had no handle yet (f + 1 factory calls in total on a
\* new connection).
C21_DriverLazyAndReplacedOnFailure ==
    /\ [](/\ (db.calls = 0) => (db._driver = None /\ db.made = 0)
          /\ (db.call.pc = "done" /\ db.call.outcome = "returned") =>
                 LET f == db.call.failed
                 IN  /\ db.call.attempts = f + 1
                     /\ db.call.acquired = f + (IF db.call.began_with = None THEN 1 ELSE 0)
                     /\ (db.calls = 1) => (db.made = f + 1)
                     /\ db.call.used = db._driver
                     /\ db.call.value = <<[query   |-> db.call.query,
                                           driver  |-> db._driver,
                                           attempt |-> f + 1]>>
                     /\ f = 0 /\ db.call.began_with # None => db._driver = db.call.began_with)
    /\ [][db'._driver # db._driver =>
             /\ db._driver = None \/ db.call.pc = "await_sleep"
             /\ db'._driver = db.made + 1
             /\ db'.made = db.made + 1]_vars

\* a second call on the connection that failed twice and then returned
C21_Witness ==
    /\ db.calls = 2
    /\ db.call.pc = "done"
    /\ db.call.outcome = "returned"
    /\ db.call.failed = 2
    /\ db.call.began_with # None
    /\ db._driver = db.call.began_with + 2

\* max_retry_attempts, and one when it is less
AttemptsAllowed == IF db.max_retry_attempts < 1 THEN 1 ELSE db.max_retry_attempts

\* C22: execute never makes more than max_retry_attempts attempts (one when that is less
\* than one); when it raises a retryable exception every attempt failed, it made exactly
\* that many attempts and the exception is that of the last attempt; when an attempt raises
\* an exception outside the retryable set, execute raises it at once, with no retry of it.
C22_AttemptsBounded ==
    /\ [](/\ db.call.attempts <= AttemptsAllowed
          /\ db.call.pc # "idle" => db.call.attempts >= 1
          /\ (db.call.pc = "done" /\ db.call.outcome = "raised") =>
                 IF db.call.error.type \in RETRYABLE_EXCEPTIONS
                 THEN /\ db.call.attempts = AttemptsAllowed
                      /\ db.call.failed = db.call.attempts
                      /\ db.call.error = db.call.e
                 ELSE db.call.failed = db.call.attempts - 1)
    /\ [][(db.call.pc = "await_query" /\ db'.call.pc = "await_sleep") =>
              db'.call.e.type \in RETRYABLE_EXCEPTIONS]_vars
    /\ [][(db.call.pc = "await_query" /\ db'.call.pc = "done" /\ db'.call.outcome = "raised") =>
              /\ db'.call.error.type \notin RETRYABLE_EXCEPTIONS
              /\ db'.call.attempts = db.call.attempts
              /\ db'._driver = db._driver]_vars

\* three attempts were allowed and each failed with a retryable exception
C22_Witness ==
    /\ db.max_retry_attempts = 3
    /\ db.call.pc = "done"
    /\ db.call.outcome = "raised"
    /\ db.call.error.type = "SessionExpired"
    /\ db.call.attempts = 3
    /\ db.call.failed = 3

\* C23: as_query goes by its argument apoc_iterate alone: it returns the server-iterated
\* template with is_apoc true when apoc_iterate is true, the client-unwound template with
\* is_apoc false otherwise, whatever the batch's own is_apoc; the parameters carry the
\* batch's parameter sets as they are, its statement as batched_query, and the chunk size,
\* parallel flag and retries given; the QueryBatch is the same after the call.
C23_AsQueryByArgument ==
    /\ []((lib_call.fn = "as_query" /\ lib_call.pc = "done") =>
             LET a == lib_call.args
                 q == lib_call.value[1]
             IN  /\ lib_call.outcome = "returned"
                 /\ q.is_apoc = a.apoc_iterate
                 /\ q.query_statement =
                        (IF a.apoc_iterate THEN "COMMIT_QUERY" ELSE "NON_APOC_COMMIT_QUERY")
                 /\ q.parameters.iterate_params.batched_parameter_sets =
                        a.self.batched_parameter_sets
                 /\ q.parameters.batched_query = a.self.query_statement
                 /\ q.parameters.chunk_size = a.chunk_size
                 /\ q.parameters.execute_chunks_in_parallel = a.execute_chunks_in_parallel
                 /\ q.parameters.retries_per_chunk = a.retries_per_chunk)
    /\ [][lib_call.fn = "as_query" => lib_call'.args = lib_call.args]_vars

\* a batch flagged is_apoc rendered with apoc_iterate false, two parameter sets that differ
C23_Witness ==
    /\ lib_call.fn = "as_query"
    /\ lib_call.pc = "done"
    /\ lib_call.args.self.is_apoc
    /\ ~lib_call.args.apoc_iterate
    /\ lib_call.args.self.batched_parameter_sets = <<"q", "p">>
    /\ ~lib_call.value[1].is_apoc

\* C24: obtain_query_statistics on a batch-protocol statement with at least one row, whose
\* first row lacks a field of the batch summary, raises without making a batch summary out of
\* the row: no response whose missing fields were filled with defaults is decoded, and no
\* statistics are returned.
C24_MalformedBatchRowRaises ==
    (/\ lib_call.fn = "obtain_query_statistics"
     /\ lib_call.pc = "done"
     /\ lib_call.args.query.is_apoc
     /\ lib_call.args.records # <<>>
     /\ DOMAIN lib_call.args.records[1] # APOC_BATCH_QUERY_RESPONSE_FIELDS) =>
        /\ lib_call.outcome = "raised"
        /\ lib_call.value = <<>>
        /\ lib_call.decoded = <<>>

\* what a breaker holds for one key: its entry in failures and in state, if any
KeyView(b, k) ==
    [tracked  |-> k \in DOMAIN b.failures,
     failures |-> DictGet(b.failures, k, <<>>),
     known    |-> k \in DOMAIN b.state,
     state    |-> DictGet(b.state, k, "closed")]

\* a breaker that holds the entries of one key only
OnlyKey(b, k) ==
    [b EXCEPT !.failures = [x \in (DOMAIN b.failures) \cap {k} |-> b.failures[x]],
              !.state    = [x \in (DOMAIN b.state) \cap {k} |-> b.state[x]]]

\* C31: a call record_failure(k), record_success(k) or can_execute(k) leaves the failure list
\* and the state of every other key as they were, and what it does to k (and what can_execute
\* returns) is what it would do on a breaker that holds the entries of k alone.
C31_KeysIndependent ==
    [][cb_calls' = cb_calls + 1 =>
          LET k     == cb_last'.key
              op    == cb_last'.op
              alone == OnlyKey(cb, k)
              after == IF op = "record_failure" THEN record_failure(alone, k, now)
                       ELSE IF op = "record_success" THEN record_success(alone, k)
                       ELSE can_execute(alone, k, now).b
          IN  /\ \A j \in Keys \ {k} : KeyView(cb', j) = KeyView(cb, j)
              /\ KeyView(cb', k) = KeyView(after, k)
              /\ op = "can_execute" => cb_last'.result = can_execute(alone, k, now).ok]_vars

\* a failure has just opened one key while the other key, closed, holds a failure that is
\* reset_timeout old or older
C31_Witness ==
    \E k \in Keys, j \in Keys :
        /\ j # k
        /\ cb_last.op = "record_failure"
        /\ cb_last.key = k
        /\ cb_last.at = now
        /\ DictGet(cb.state, k, "closed") = "open"
        /\ DictGet(cb.state, j, "closed") = "closed"
        /\ DictGet(cb.failures, j, <<>>) # <<>>
        /\ now - DictGet(cb.failures, j, <<>>)[1] >= cb.reset_timeout

\* C32: when the driver's session() raises inside get_session, the call raises the driver's
\* error, the session table and the SessionState objects are as before and the breaker has
\* had one record_failure("session_creation"); when it returns a session, the table has one
\* more entry, under an id never used before and with status CREATED, the breaker has had one
\* record_success("session_creation") and the call returns the handle of that entry.
C32_GetSessionOutcome ==
    [][\A t \in Tasks :
          (task[t].op = "get_session" /\ task[t].pc = "await_session" /\ task'[t].pc = "done") =>
              IF task'[t].outcome = "raised"
              THEN /\ task'[t].error \in remote_errors
                   /\ sessions' = sessions
                   /\ sstate' = sstate
                   /\ sm_cb' = record_failure(sm_cb, "session_creation", now)
                   /\ Len(DictGet(sm_cb'.failures, "session_creation", <<>>)) >= 1
              ELSE /\ task'[t].outcome = "returned"
                   /\ \E sid \in sessions' \ sessions :
                          /\ sessions' = sessions \cup {sid}
                          /\ sid \notin (DOMAIN sstate) \cup (DOMAIN retired)
                          /\ sstate'[sid].id = sid
                          /\ sstate'[sid].status = "CREATED"
                          /\ task'[t].value = <<sstate'[sid].session>>
                          /\ \A other \in (DOMAIN sstate) :
                                 sstate[other].session # sstate'[sid].session
                   /\ \A sid \in DOMAIN sstate : sstate'[sid] = sstate[sid]
                   /\ sm_cb' = record_success(sm_cb, "session_creation")]_vars

\* a get_session that raised the driver's error while a session opened before is tracked
C32_Witness ==
    /\ task[1].op = "get_session"
    /\ task[1].pc = "done"
    /\ task[1].outcome = "raised"
    /\ task[1].error = TransientFailure
    /\ sessions # {}
    /\ Len(DictGet(sm_cb.failures, "session_creation", <<>>)) = 1

\* C33: every update_session_metrics call that found its session tracked leaves the counter
\* at the value it had just before the call's write plus the call's own value, whatever the
\* other callers did since the call began (so N completed calls add the sum of their values),
\* stamps last_used_at and sets the status ACTIVE; a call on an untracked handle changes no
\* SessionState and not the table.
C33_NoLostUpdate ==
    [][LET EndsAtOnce(t) ==
               /\ task'[t].op = "update_session_metrics"
               /\ task[t].pc \in {"idle", "done"}
               /\ task'[t].pc = "done"
               /\ \A u \in Tasks \ {t} : task'[u] = task[u]
       IN  /\ \A t \in Tasks :
                 (task[t].pc = "metrics_locked" /\ task'[t].pc = "done") =>
                     LET sid == task[t].state
                     IN  /\ sid \in DOMAIN sstate'
                         /\ sstate'[sid].queries_executed =
                                sstate[sid].queries_executed + task[t].metric_value
                         /\ sstate'[sid].last_used_at = now
                         /\ sstate'[sid].status = "ACTIVE"
                         /\ \A other \in (DOMAIN sstate) \ {sid} :
                                sstate'[other] = sstate[other]
           /\ (calls' = calls + 1 /\ \E t \in Tasks : EndsAtOnce(t)) =>
                 /\ \E t \in Tasks :
                        EndsAtOnce(t) /\ get_session_state(World, task'[t].session) = None
                 /\ sstate' = sstate
                 /\ sessions' = sessions]_vars

\* one thread waits for the lock another holds, both on a session that has been updated before
C33_Witness ==
    /\ task[1].pc = "metrics_lock"
    /\ task[2].pc = "metrics_locked"
    /\ task[1].state = task[2].state
    /\ task[1].metric_value # task[2].metric_value
    /\ sstate[task[1].state].queries_executed > 0

\* the awaits of the claim: session(), begin_transaction(), run(), consume(), commit(),
\* __aexit__, asyncio.sleep and session.close()
SuspensionPoints ==
    {"await_session", "await_begin", "await_run", "await_consume", "await_commit",
     "await_aexit", "await_sleep", "await_close"}

\* C34: whenever a task is suspended at an await (opening a session, beginning a
\* transaction, run, consume, commit, leaving the transaction, the backoff sleep, closing the
\* session), the breaker locks, the session-metrics lock and the transaction-table lock are
\* all free.
C34_NoLockAcrossAwait ==
    (\E t \in Tasks : task[t].pc \in SuspensionPoints) =>
        \A l \in LockNames : locks[l] = None

\* one task awaits its commit and the other sleeps before a retry, both registered in the
\* transaction table
C34_Witness ==
    /\ task[1].pc = "await_commit"
    /\ task[2].pc = "await_sleep"
    /\ task[1].txid \in DOMAIN transactions
    /\ task[2].txid \in DOMAIN transactions
    /\ \A l \in LockNames : locks[l] = None

\* C35: for one execute_in_transaction call the breaker is told of at most one failure for
\* the call's key, and only once the call is set to raise; the key holds exactly the failures
\* recorded by this call, is never OPEN, and no attempt of the call was turned away by the
\* breaker check.
C35_OneFailurePerTransactionKey ==
    \A t \in Tasks :
        task[t].txid # None =>
            /\ task[t].recorded <= 1
            /\ task[t].recorded = 1 => task[t].outcome = "raised"
            /\ Len(DictGet(tx_cb.failures, task[t].txid, <<>>)) = task[t].recorded
            /\ DictGet(tx_cb.state, task[t].txid, "closed") # "open"
            /\ task[t].last_failure # TransactionBlocked
            /\ task[t].error # TransactionBlocked
            /\ tx_cb.failure_threshold > 1

\* a call that has raised after two attempts that failed, the first one retried
C35_Witness ==
    /\ task[1].op = "execute_in_transaction"
    /\ task[1].pc = "done"
    /\ task[1].outcome = "raised"
    /\ task[1].failed = 2
    /\ Len(task[1].slept) = 1
    /\ task[1].recorded = 1
    /\ Len(DictGet(tx_cb.failures, task[1].txid, <<>>)) = 1

\* C36: no step of execute_in_transaction changes the transaction manager's retry
\* configuration: the strings a call passes as retry_on_errors decide for that call alone.
C36_RetryConfigUnchanged ==
    [][retry_config' = retry_config]_vars

\* C37: no step takes a SessionState that is CLOSING to ACTIVE: an update_session_metrics
\* call made while close_session awaits the underlying close leaves the status CLOSING.
C37_ClosingNeverActive ==
    [][\A sid \in (DOMAIN sstate) \cap (DOMAIN sstate') :
          sstate[sid].status = "CLOSING" => sstate'[sid].status # "ACTIVE"]_vars

\* the close_session calls suspended in "await session.close()" on one SessionState
ClosesInFlight(sid) ==
    Cardinality({t \in Tasks : task[t].pc = "await_close" /\ task[t].closing = sid})
        + (IF reaper.pc = "closing" /\ reaper.closing = sid THEN 1 ELSE 0)

\* C38: session.close() is invoked at most once on a handle: at no time are two close_session
\* calls (of a caller, of close_all_sessions, of the reaper) awaiting the close of the same
\* session.
C38_UnderlyingCloseOnce ==
    \A sid \in DOMAIN sstate : ClosesInFlight(sid) <= 1

\* C39: while an execute_in_transaction attempt is between begin_transaction and the end of
\* its commit, the reaper is not closing the session the attempt runs on.
C39_NoReapInFlight ==
    \A t \in Tasks :
        task[t].pc \in {"await_run", "await_consume", "await_commit"} =>
            ~(/\ reaper.pc = "closing"
              /\ reaper.closing \in DOMAIN sstate
              /\ sstate[reaper.closing].session = task[t].session)

\* C40: with transaction metrics collected, every tracked session has counted at least as
\* many transactions started as committed and rolled back together.
C40_OutcomesNeverExceedStarts ==
    collect_transaction_metrics =>
        \A sid \in sessions :
            sstate[sid].transactions_committed + sstate[sid].transactions_rolled_back
                <= sstate[sid].transactions_started

====
